---- MODULE Spec2Model ----
(***************************************************************************)
(* Resource ledger (models/system_state.py, models/process.py,             *)
(* models/resource.py) and the three algorithms working on it:             *)
(* algorithms/avoidance.py, algorithms/detection.py,                       *)
(* algorithms/recovery.py, with the event handlers of simulator.py.        *)
(*                                                                         *)
(* A SystemState is a record.  Python list indices are kept (0-based       *)
(* functions), a process's pid is a field and need not equal its index.    *)
(* The cached matrices of SystemState are fields that are either None or   *)
(* a matrix; reading a matrix property fills the cache, refresh_matrices   *)
(* empties it.  _max_demand_matrix is left out: max_demand is never        *)
(* written after loading, so that cache always equals the value derived    *)
(* from the processes.  _work_vector and _finish_vector are never read.    *)
(*                                                                         *)
(* Every API call is one action: the engine is sequential and a call runs  *)
(* to completion (or to the exception that ends it) before the next one.   *)
(***************************************************************************)
EXTENDS Integers, Sequences, FiniteSets, TLC

\* ---------------------------------------------------------------- bounds
NumProcs == 2
NumResources == 2
MaxInstances == 1
MaxPriority == 2

VARIABLES system_state, policy, last

vars == <<system_state, policy, last>>

\* ------------------------------------------------------------ vocabulary
None == <<>>

\* Python's None where a list of pids is expected (no pid is negative).
NoSequence == <<-1>>

ProcessState == {"READY", "RUNNING", "WAITING", "FINISHED", "DEADLOCKED", "TERMINATED"}

Policies == {"avoidance", "detection_only", "detection_with_recovery"}

Min(S) == CHOOSE x \in S : \A y \in S : x <= y

Max(S) == CHOOSE x \in S : \A y \in S : x >= y

RECURSIVE SumOver(_, _)
SumOver(f, S) == IF S = {} THEN 0 ELSE LET x == CHOOSE y \in S : TRUE IN f[x] + SumOver(f, S \ {x})

\* ------------------------------------------------- models/system_state.py
num_processes(ss) == Cardinality(DOMAIN ss.processes)

num_resources(ss) == Cardinality(DOMAIN ss.resources)

ProcIdx(ss) == DOMAIN ss.processes

ResIdx(ss) == DOMAIN ss.resources

_build_allocation_matrix(ss) == [i \in ProcIdx(ss) |-> [j \in ResIdx(ss) |-> ss.processes[i].allocation[j]]]

_build_max_demand_matrix(ss) == [i \in ProcIdx(ss) |-> [j \in ResIdx(ss) |-> ss.processes[i].max_demand[j]]]

_build_available_vector(ss) == [j \in ResIdx(ss) |-> ss.resources[j].available_instances]

_build_request_matrix(ss) == [i \in ProcIdx(ss) |-> [j \in ResIdx(ss) |-> ss.processes[i].current_request[j]]]

\* The matrix properties: the SystemState after the read (cache filled when it
\* was None); the value read is then the cache field.
allocation_matrix(ss) ==
    IF ss._allocation_matrix = None
    THEN [ss EXCEPT !._allocation_matrix = _build_allocation_matrix(ss)]
    ELSE ss

available_vector(ss) ==
    IF ss._available_vector = None
    THEN [ss EXCEPT !._available_vector = _build_available_vector(ss)]
    ELSE ss

request_matrix(ss) ==
    IF ss._request_matrix = None
    THEN [ss EXCEPT !._request_matrix = _build_request_matrix(ss)]
    ELSE ss

need_matrix(ss) ==
    IF ss._need_matrix = None
    THEN LET s1 == allocation_matrix(ss)
         IN [s1 EXCEPT !._need_matrix =
                [i \in ProcIdx(ss) |-> [j \in ResIdx(ss) |->
                    _build_max_demand_matrix(ss)[i][j] - s1._allocation_matrix[i][j]]]]
    ELSE ss

refresh_matrices(ss) ==
    [ss EXCEPT !._allocation_matrix = None, !._available_vector = None,
               !._request_matrix = None, !._need_matrix = None]

\* snapshot(): copies of the four matrices (reading them fills the caches) and
\* of every process's pid, state, allocation and current_request.
snapshot(ss) ==
    LET s1 == need_matrix(request_matrix(available_vector(allocation_matrix(ss))))
    IN [snapshot |->
           [allocation_matrix |-> s1._allocation_matrix,
            available_vector  |-> s1._available_vector,
            request_matrix    |-> s1._request_matrix,
            need_matrix       |-> s1._need_matrix,
            process_states    |->
                [i \in ProcIdx(ss) |->
                    [pid |-> ss.processes[i].pid, state |-> ss.processes[i].state,
                     allocation |-> ss.processes[i].allocation,
                     current_request |-> ss.processes[i].current_request]]],
        ss |-> s1]

\* A restore that puts back the four matrices and leaves the processes as
\* they are.
restore_matrices_only(ss, snap) ==
    [ss EXCEPT !._allocation_matrix = snap.allocation_matrix,
               !._available_vector = snap.available_vector,
               !._request_matrix = snap.request_matrix,
               !._need_matrix = snap.need_matrix]

\* restore(): the four cached matrices become copies of the snapshot's, and
\* every process named in the snapshot gets its state, allocation and
\* current_request back.  The Resource objects are not written.
restore(ss, snap) ==
    [ss EXCEPT !._allocation_matrix = snap.allocation_matrix,
               !._available_vector = snap.available_vector,
               !._request_matrix = snap.request_matrix,
               !._need_matrix = snap.need_matrix,
               !.processes =
                   [i \in ProcIdx(ss) |->
                       IF \E k \in DOMAIN snap.process_states :
                             snap.process_states[k].pid = ss.processes[i].pid
                       THEN LET k == CHOOSE k \in DOMAIN snap.process_states :
                                        snap.process_states[k].pid = ss.processes[i].pid
                            IN [ss.processes[i] EXCEPT
                                   !.state = snap.process_states[k].state,
                                   !.allocation = snap.process_states[k].allocation,
                                   !.current_request = snap.process_states[k].current_request]
                       ELSE ss.processes[i]]]

\* A conservation check that compares the sums and never looks at the sign
\* of what is available.
ConservationFails_sum_only(ss) ==
    LET s1 == available_vector(allocation_matrix(ss))
    IN \E r \in ResIdx(ss) :
          LET allocated == SumOver([i \in ProcIdx(ss) |-> s1._allocation_matrix[i][r]], ProcIdx(ss))
              available == s1._available_vector[r]
          IN allocated + available # ss.resources[r].total_instances

\* assert_resource_conservation: TRUE when an assertion fails (AssertionError).
ConservationFails(ss) ==
    LET s1 == available_vector(allocation_matrix(ss))
    IN \E r \in ResIdx(ss) :
          LET allocated == SumOver([i \in ProcIdx(ss) |-> s1._allocation_matrix[i][r]], ProcIdx(ss))
              available == s1._available_vector[r]
          IN allocated + available # ss.resources[r].total_instances \/ available < 0

assert_resource_conservation(ss) == available_vector(allocation_matrix(ss))

\* ------------------------------------------------- utils/scenario_loader.py
\* A validated ledger as load_scenario builds it: processes READY, no pending
\* request, initial_allocation <= max_demand, available = total - allocated.
Procs == 0 .. (NumProcs - 1)

Res == 0 .. (NumResources - 1)

_validate_initial_allocations(total, allocation) ==
    [r \in DOMAIN total |->
        total[r] - SumOver([p \in DOMAIN allocation |-> allocation[p][r]], DOMAIN allocation)]

load_scenario(total, max_demand, allocation, pids, prio, arrival) ==
    [processes |-> [i \in DOMAIN allocation |->
        [pid |-> pids[i], priority |-> prio[i], arrival_step |-> arrival[i], max_demand |-> max_demand[i],
         allocation |-> allocation[i], state |-> "READY",
         current_request |-> [r \in DOMAIN total |-> 0]]],
     resources |-> [r \in DOMAIN total |->
        [total_instances |-> total[r],
         available_instances |-> _validate_initial_allocations(total, allocation)[r]]],
     _allocation_matrix |-> None, _available_vector |-> None,
     _request_matrix |-> None, _need_matrix |-> None]

\* ---------------------------------------------------- models/process.py
\* Process.enter_waiting and Process.exit_waiting are called by handle_request
\* but the Process class under src/ does not define them.  They are modelled
\* from the specification: the denied process is transitioned to WAITING, and
\* leaving WAITING only closes the waiting-time bookkeeping (the caller sets
\* READY itself).
enter_waiting(process) == [process EXCEPT !.state = "WAITING"]

exit_waiting(process) == process

\* ------------------------------------------------ algorithms/avoidance.py
\* A comparison that is satisfied by one fitting component (np.any).
LeqSome(a, b) == \E j \in DOMAIN a : a[j] <= b[j]

\* np.all(a <= b): every component fits.
LeqVec(a, b) == \A j \in DOMAIN a : a[j] <= b[j]

AddVec(a, b) == [j \in DOMAIN a |-> a[j] + b[j]]

\* Work bound to the cached vector itself (no copy): the accumulation lands in
\* the cache.
work_alias(available, work_after) == work_after

\* work = available_vector.copy(): the Work accumulation acts on a copy, the
\* cached vector keeps its value.
work_copy(available, work_after) == available

\* A scan that keeps the last fitting process instead of the first.
first_fit_last(candidates) == Max(candidates)

\* The scan of one iteration of the while loop: the first index, in ascending
\* order, of the active unfinished processes whose Need row fits in Work.
first_fit(candidates) == Min(candidates)

RECURSIVE safety_loop(_, _, _, _, _, _)
safety_loop(ss, need, active, work, finish, safe_sequence) ==
    LET candidates == {i \in active : ~finish[i] /\ LeqVec(need[i], work)}
    IN IF candidates = {}
       THEN [ss |-> ss, work |-> work, finish |-> finish, safe_sequence |-> safe_sequence]
       ELSE LET i  == first_fit(candidates)
                s1 == allocation_matrix(ss)
            IN safety_loop(s1, need, active, AddVec(work, s1._allocation_matrix[i]),
                           [finish EXCEPT ![i] = TRUE],
                           Append(safe_sequence, ss.processes[i].pid))

\* any() where the code has all().
some_finished(finish, active) == \E i \in active : finish[i]

all_finished(finish, active) == \A i \in active : finish[i]

is_safe_state(ss) ==
    LET s1     == available_vector(ss)
        active == {i \in ProcIdx(ss) : ss.processes[i].state \notin {"FINISHED", "TERMINATED"}}
        s2     == IF active = {} THEN s1 ELSE need_matrix(s1)
        run    == safety_loop(s2, s2._need_matrix, active, s1._available_vector,
                              [i \in ProcIdx(ss) |-> FALSE], <<>>)
        s3     == [run.ss EXCEPT !._available_vector = work_copy(s1._available_vector, run.work)]
    IN IF all_finished(run.finish, active)
       THEN [is_safe |-> TRUE, safe_sequence |-> run.safe_sequence, ss |-> s3]
       ELSE [is_safe |-> FALSE, safe_sequence |-> NoSequence, ss |-> s3]

\* A validation that lets a request for zero instances through.
invalid_amount_negative_only(amount) == amount < 0

\* Step 1 of handle_request, second test (line 118).
invalid_amount(amount) == amount <= 0

\* A denial that records no pending request.
set_pending_dropped(process, resource_type, amount) == process

\* A denial that overwrites the pending amounts of every resource type.
set_pending_every_type(process, resource_type, amount) ==
    [process EXCEPT !.current_request = [r \in DOMAIN process.current_request |-> amount]]

\* process.current_request[resource_type] = amount (lines 127 and 165).
set_pending(process, resource_type, amount) ==
    [process EXCEPT !.current_request[resource_type] = amount]

\* A rollback that restores the allocation and forgets the availability.
rollback_allocation_only(ss, i, resource_type, original_allocation, original_available) ==
    [ss EXCEPT !.processes[i].allocation[resource_type] = original_allocation]

\* The rollback of the unsafe path (lines 161-162).
rollback(ss, i, resource_type, original_allocation, original_available) ==
    [ss EXCEPT !.processes[i].allocation[resource_type] = original_allocation,
               !.resources[resource_type].available_instances = original_available]

handle_request(i, resource_type, amount, ss) ==
    LET process   == ss.processes[i]
        need      == process.max_demand[resource_type] - process.allocation[resource_type]
        available == ss.resources[resource_type].available_instances
    IN IF amount > need
       THEN [granted |-> FALSE, reason |-> "exceeds need", raised |-> FALSE, ss |-> ss]
       ELSE IF invalid_amount(amount)
       THEN [granted |-> FALSE, reason |-> "invalid amount", raised |-> FALSE, ss |-> ss]
       ELSE IF amount > available
       THEN [granted |-> FALSE, reason |-> "insufficient", raised |-> FALSE,
             ss |-> [ss EXCEPT !.processes[i] =
                        enter_waiting(set_pending(process, resource_type, amount))]]
       ELSE LET original_allocation == process.allocation[resource_type]
                original_available  == available
                tentative == refresh_matrices(
                    [ss EXCEPT !.processes[i].allocation[resource_type] = @ + amount,
                               !.resources[resource_type].available_instances = @ - amount])
                safety == is_safe_state(tentative)
            IN IF safety.is_safe
               THEN LET s1 == [safety.ss EXCEPT !.processes[i].current_request[resource_type] = 0]
                        s2 == IF s1.processes[i].state = "WAITING"
                              THEN [s1 EXCEPT !.processes[i] =
                                       [exit_waiting(s1.processes[i]) EXCEPT !.state = "READY"]]
                              ELSE s1
                    IN [granted |-> TRUE, reason |-> "granted", raised |-> ConservationFails(s2),
                        safe_sequence |-> safety.safe_sequence,
                        ss |-> assert_resource_conservation(s2)]
               ELSE LET s1 == rollback(safety.ss, i, resource_type,
                                       original_allocation, original_available)
                        s2 == [s1 EXCEPT !.processes[i] =
                                 enter_waiting(set_pending(s1.processes[i], resource_type, amount))]
                    IN [granted |-> FALSE, reason |-> "unsafe", raised |-> FALSE,
                        ss |-> refresh_matrices(s2)]

\* ------------------------------------------------ algorithms/detection.py
ZeroVec(ss) == [j \in ResIdx(ss) |-> 0]

\* The pids of a set of process-list indices, in ascending index order.
RECURSIVE pids_in_list_order(_, _)
pids_in_list_order(ss, S) ==
    IF S = {} THEN <<>>
    ELSE LET i == Min(S) IN <<ss.processes[i].pid>> \o pids_in_list_order(ss, S \ {i})

\* A detection pass that compares the Need row with Work.
detection_row_need(ss, i) == need_matrix(ss)._need_matrix[i]

\* The row detection compares with Work: Request[i], not Need[i].
detection_row(ss, i) == ss._request_matrix[i]

RECURSIVE detection_loop(_, _, _)
detection_loop(ss, work, finish) ==
    LET unfinished == {i \in ProcIdx(ss) : ~finish[i]}
        s1 == IF unfinished = {} THEN ss ELSE request_matrix(ss)
        candidates == {i \in unfinished : LeqVec(detection_row(s1, i), work)}
    IN IF candidates = {}
       THEN [ss |-> s1, work |-> work, finish |-> finish]
       ELSE LET i  == Min(candidates)
                s2 == allocation_matrix(s1)
            IN detection_loop(s2, AddVec(work, s2._allocation_matrix[i]),
                              [finish EXCEPT ![i] = TRUE])

\* A detection pass that leaves FINISHED processes among the candidates.
pre_satisfied_terminated_only(process) == process.state = "TERMINATED"

\* A detection pass that takes a process already marked DEADLOCKED as done.
pre_satisfied_or_deadlocked(process) ==
    process.state \in {"FINISHED", "TERMINATED", "DEADLOCKED"}

\* Finish[i] starts True for the processes that are FINISHED or TERMINATED.
pre_satisfied(process) == process.state \in {"FINISHED", "TERMINATED"}

detect_deadlock(ss) ==
    LET s1  == available_vector(ss)
        run == detection_loop(s1, s1._available_vector,
                   [i \in ProcIdx(ss) |-> pre_satisfied(ss.processes[i])])
        deadlocked == {i \in ProcIdx(ss) : ~run.finish[i]}
        deadlocked_pids == pids_in_list_order(ss, deadlocked)
    IN [deadlock_exists |-> Len(deadlocked_pids) > 0,
        deadlocked_pids |-> deadlocked_pids,
        ss |-> [run.ss EXCEPT !.processes =
                   [i \in ProcIdx(ss) |->
                       IF i \in deadlocked THEN [run.ss.processes[i] EXCEPT !.state = "DEADLOCKED"]
                       ELSE run.ss.processes[i]]]]

\* ------------------------------------------------- algorithms/recovery.py
\* next(p for p in processes if p.pid == pid): the first index with that pid,
\* or -1 when there is none.
index_of_pid(ss, pid) ==
    LET S == {i \in ProcIdx(ss) : ss.processes[i].pid = pid}
    IN IF S = {} THEN -1 ELSE Min(S)

\* A max / min that returns the last element with the extreme key.
last_with_key(list, key, k) == list[Max({n \in DOMAIN list : key[n] = k})]

\* Python's max(list, key) / min(list, key): the first element of the list
\* whose key is maximal / minimal.
first_with_key(list, key, k) == list[Min({n \in DOMAIN list : key[n] = k})]

\* A max that returns the first element with the least key.
max_by_key_least(list, key) == first_with_key(list, key, Min({key[n] : n \in DOMAIN list}))

max_by_key(list, key) == first_with_key(list, key, Max({key[n] : n \in DOMAIN list}))

min_by_key(list, key) == first_with_key(list, key, Min({key[n] : n \in DOMAIN list}))

RECURSIVE select_victim(_, _, _)
select_victim(deadlocked_pids, ss, strategy) ==
    IF Len(deadlocked_pids) = 0 THEN -1
    ELSE IF strategy = "priority"
    THEN max_by_key(deadlocked_pids,
            [n \in DOMAIN deadlocked_pids |->
                LET i == index_of_pid(ss, deadlocked_pids[n])
                IN IF i = -1 THEN 0 ELSE ss.processes[i].priority])
    ELSE IF strategy = "fewest_resources"
    THEN min_by_key(deadlocked_pids,
            [n \in DOMAIN deadlocked_pids |->
                LET i == index_of_pid(ss, deadlocked_pids[n])
                IN IF i = -1 THEN 0
                   ELSE SumOver(allocation_matrix(ss)._allocation_matrix[i], ResIdx(ss))])
    ELSE IF strategy = "youngest"
    THEN max_by_key(deadlocked_pids,
            [n \in DOMAIN deadlocked_pids |->
                LET i == index_of_pid(ss, deadlocked_pids[n])
                IN IF i = -1 THEN 0 ELSE ss.processes[i].arrival_step])
    ELSE select_victim(deadlocked_pids, ss, "priority")

\* A terminate_process that leaves available_instances as they were.
recompute_available_skipped(ss) == ss

\* Lines 111-117: available is recomputed from total minus the allocation column
\* of the (cached) allocation matrix.
recompute_available(ss) ==
    [ss EXCEPT !.resources =
        [r \in ResIdx(ss) |->
            [ss.resources[r] EXCEPT !.available_instances =
                ss.resources[r].total_instances
                - SumOver([i \in ProcIdx(ss) |-> ss._allocation_matrix[i][r]], ProcIdx(ss))]]]

terminate_process(pid, ss) ==
    LET process_idx == index_of_pid(ss, pid)
    IN IF process_idx = -1
       THEN [success |-> FALSE, raised |-> FALSE, ss |-> ss]
       ELSE LET s1 == allocation_matrix(ss)
                s2 == [s1 EXCEPT !._allocation_matrix[process_idx] = ZeroVec(ss),
                                 !.processes[process_idx].allocation = ZeroVec(ss)]
                s3 == request_matrix(s2)
                s4 == [s3 EXCEPT !._request_matrix[process_idx] = ZeroVec(ss),
                                 !.processes[process_idx].current_request = ZeroVec(ss),
                                 !.processes[process_idx].state = "TERMINATED"]
                s5 == refresh_matrices(recompute_available(s4))
            IN [success |-> TRUE, raised |-> ConservationFails(s5),
                ss |-> assert_resource_conservation(s5)]

\* A preemption that takes whatever the process holds when asked for more.
holds_less_never(allocated, amount) == FALSE

\* Line 166: the process holds fewer instances than are to be preempted.
holds_less(allocated, amount) == allocated < amount

\* The snapshot is None when the preemption fails.
preempt_resources(pid, resource_type, amount, ss) ==
    LET process_idx == index_of_pid(ss, pid)
    IN IF process_idx = -1
       THEN [success |-> FALSE, raised |-> FALSE, snapshot |-> None, ss |-> ss]
       ELSE LET s1 == allocation_matrix(ss)
                allocated == s1._allocation_matrix[process_idx][resource_type]
            IN IF holds_less(allocated, amount)
               THEN [success |-> FALSE, raised |-> FALSE, snapshot |-> None, ss |-> s1]
               ELSE LET snap == snapshot(s1)
                        s2 == snap.ss
                        state == s2.processes[process_idx].state
                    IN [success |-> TRUE, raised |-> FALSE, snapshot |-> snap.snapshot,
                        ss |-> [s2 EXCEPT
                            !._allocation_matrix[process_idx][resource_type] = @ - amount,
                            !.processes[process_idx].allocation[resource_type] = @ - amount,
                            !._available_vector[resource_type] = @ + amount,
                            !._need_matrix[process_idx][resource_type] = @ + amount,
                            !.processes[process_idx].state =
                                IF state \in {"RUNNING", "READY"} THEN "WAITING" ELSE state]]

\* A reset that makes every process still DEADLOCKED READY.
reset_deadlocked_to_ready(ss) ==
    [ss EXCEPT !.processes =
        [i \in ProcIdx(ss) |->
            IF ss.processes[i].state = "DEADLOCKED"
            THEN [ss.processes[i] EXCEPT !.state = "READY"]
            ELSE ss.processes[i]]]

\* Lines 239-247: processes still DEADLOCKED go back to WAITING or READY.
reset_deadlocked(ss) ==
    [ss EXCEPT !.processes =
        [i \in ProcIdx(ss) |->
            IF ss.processes[i].state = "DEADLOCKED"
            THEN [ss.processes[i] EXCEPT !.state =
                     IF \E r \in ResIdx(ss) : ss.processes[i].current_request[r] # 0
                     THEN "WAITING" ELSE "READY"]
            ELSE ss.processes[i]]]

\* The while loop of method "terminate"; victims collects the pids terminated.
RECURSIVE terminate_loop(_, _, _)
terminate_loop(remaining_deadlocked, ss, victims) ==
    IF Len(remaining_deadlocked) = 0
    THEN [success |-> TRUE, raised |-> FALSE, victims |-> victims, resolved |-> FALSE, ss |-> ss]
    ELSE LET victim_pid == select_victim(remaining_deadlocked, ss, "priority")
             term == terminate_process(victim_pid, ss)
         IN IF term.raised
            THEN [success |-> FALSE, raised |-> TRUE, victims |-> Append(victims, victim_pid),
                  resolved |-> FALSE, ss |-> term.ss]
            ELSE IF ~term.success
            THEN [success |-> FALSE, raised |-> FALSE, victims |-> victims,
                  resolved |-> FALSE, ss |-> term.ss]
            ELSE LET det == detect_deadlock(term.ss)
                 IN IF ~det.deadlock_exists
                    THEN [success |-> TRUE, raised |-> FALSE,
                          victims |-> Append(victims, victim_pid),
                          resolved |-> TRUE, ss |-> reset_deadlocked(det.ss)]
                    ELSE terminate_loop(det.deadlocked_pids, det.ss, Append(victims, victim_pid))

\* A recovery that reports success and terminates no process.
recover_without_victim(deadlocked_pids, ss, method) ==
    [success |-> Len(deadlocked_pids) > 0, raised |-> FALSE, victims |-> <<>>,
     resolved |-> FALSE, ss |-> reset_deadlocked(ss)]

recover_from_deadlock(deadlocked_pids, ss, method) ==
    IF Len(deadlocked_pids) = 0
    THEN [success |-> FALSE, raised |-> FALSE, victims |-> <<>>, resolved |-> FALSE, ss |-> ss]
    ELSE IF method = "terminate"
    THEN terminate_loop(deadlocked_pids, ss, <<>>)
    ELSE [success |-> FALSE, raised |-> FALSE, victims |-> <<>>, resolved |-> FALSE, ss |-> ss]

\* ------------------------------------------------------------ simulator.py
_simple_allocation(i, resource_type, amount, ss) ==
    LET process   == ss.processes[i]
        need      == process.max_demand[resource_type] - process.allocation[resource_type]
        available == ss.resources[resource_type].available_instances
    IN IF amount > need
       THEN [granted |-> FALSE, reason |-> "exceeds need", raised |-> FALSE, ss |-> ss]
       ELSE IF amount > available
       THEN [granted |-> FALSE, reason |-> "insufficient", raised |-> FALSE,
             ss |-> refresh_matrices(
                       [ss EXCEPT !.processes[i].current_request[resource_type] = amount,
                                  !.processes[i].state = "WAITING"])]
       ELSE LET s1 == [ss EXCEPT !.processes[i].allocation[resource_type] = @ + amount,
                                 !.resources[resource_type].available_instances = @ - amount,
                                 !.processes[i].current_request[resource_type] = 0,
                                 !.processes[i].state = IF @ = "WAITING" THEN "READY" ELSE @]
                s2 == refresh_matrices(s1)
            IN [granted |-> TRUE, reason |-> "granted", raised |-> ConservationFails(s2),
                ss |-> assert_resource_conservation(s2)]

\* _process_events, 'release' branch (lines 282-294).
release_event(i, resource_type, amount, ss) ==
    IF ss.processes[i].allocation[resource_type] < amount
    THEN [released |-> FALSE, ss |-> ss]
    ELSE [released |-> TRUE,
          ss |-> refresh_matrices(
                    [ss EXCEPT !.processes[i].allocation[resource_type] = @ - amount,
                               !.resources[resource_type].available_instances = @ + amount])]

_finish_process(i, ss) ==
    LET held == ss.processes[i].allocation
        s1 == [ss EXCEPT
                 !.resources = [r \in ResIdx(ss) |->
                     IF held[r] > 0
                     THEN [ss.resources[r] EXCEPT !.available_instances = @ + held[r]]
                     ELSE ss.resources[r]],
                 !.processes[i].allocation = [r \in ResIdx(ss) |-> IF held[r] > 0 THEN 0 ELSE held[r]],
                 !.processes[i].state = "FINISHED"]
        s2 == refresh_matrices(s1)
    IN [raised |-> ConservationFails(s2), ss |-> assert_resource_conservation(s2)]

\* ------------------------------------- algorithms/avoidance.py (retries)
\* sorted(system_state.processes, key=lambda p: p.pid), as list indices.
RECURSIVE sorted_processes_of(_, _)
sorted_processes_of(ss, S) ==
    IF S = {} THEN <<>>
    ELSE LET i == CHOOSE a \in S : \A b \in S :
                     \/ ss.processes[a].pid < ss.processes[b].pid
                     \/ (ss.processes[a].pid = ss.processes[b].pid /\ a <= b)
         IN <<i>> \o sorted_processes_of(ss, S \ {i})

sorted_processes(ss) == sorted_processes_of(ss, ProcIdx(ss))

\* The resource type one retry attempts: the first slot of the cached Request
\* row that is not zero.
first_pending(row) == Min({r \in DOMAIN row : row[r] # 0})

\* The admission rule a retry uses.  Under the detection policies the call
\* passes five positional arguments to _simple_allocation, which takes four:
\* TypeError, before any field is written.
retry_attempt(i, resource_type, amount, ss, pol) ==
    IF pol = "avoidance"
    THEN handle_request(i, resource_type, amount, ss)
    ELSE [granted |-> FALSE, reason |-> "TypeError", raised |-> TRUE, ss |-> ss]

RECURSIVE retry_loop(_, _, _, _, _, _)
RECURSIVE retry_process(_, _, _, _, _, _)
RECURSIVE retry_result(_, _, _, _, _, _, _, _)
\* Lines 229-252: the attempt's result is appended and the loop goes on to the
\* next process; an exception ends the call.
retry_result(order, n, attempted_this_step, pol, results, resource_type, amount, res) ==
    IF res.raised
    THEN [results |-> results, raised |-> TRUE, ss |-> res.ss]
    ELSE retry_loop(order, n + 1, res.ss, attempted_this_step, pol,
            Append(results,
                [pid |-> res.ss.processes[order[n]].pid, granted |-> res.granted,
                 reason |-> res.reason,
                 resource_type |-> resource_type, amount |-> amount]))

\* Lines 211-228: ss is the ledger after the read of request_matrix; the first
\* non-zero slot of the process's cached Request row is the one attempted.
retry_process(order, n, ss, attempted_this_step, pol, results) ==
    IF ~(\E r \in ResIdx(ss) : ss._request_matrix[order[n]][r] > 0)
    THEN retry_loop(order, n + 1, ss, attempted_this_step, pol, results)
    ELSE retry_result(order, n, attempted_this_step, pol, results,
            first_pending(ss._request_matrix[order[n]]),
            ss._request_matrix[order[n]][first_pending(ss._request_matrix[order[n]])],
            retry_attempt(order[n], first_pending(ss._request_matrix[order[n]]),
                ss._request_matrix[order[n]][first_pending(ss._request_matrix[order[n]])],
                ss, pol))

retry_loop(order, n, ss, attempted_this_step, pol, results) ==
    IF n > Len(order)
    THEN [results |-> results, raised |-> FALSE, ss |-> ss]
    ELSE IF ss.processes[order[n]].pid \in attempted_this_step
    THEN retry_loop(order, n + 1, ss, attempted_this_step, pol, results)
    ELSE IF ss.processes[order[n]].state \in {"FINISHED", "TERMINATED"}
    THEN retry_loop(order, n + 1, ss, attempted_this_step, pol, results)
    ELSE retry_process(order, n, request_matrix(ss), attempted_this_step, pol, results)

retry_pending_requests(ss, attempted_this_step, pol) ==
    retry_loop(sorted_processes(ss), 1, ss, attempted_this_step, pol, <<>>)

\* ------------------------------------------------------------------ actions
Pids == {system_state.processes[i].pid : i \in ProcIdx(system_state)}

Amounts == 1 .. MaxInstances

\* A request event of the schedule (simulator.py 251-263), or a direct call of
\* handle_request with a non-positive amount.
Request(i, resource_type, amount) ==
    /\ policy = "avoidance" \/ amount > 0
    /\ LET res == IF policy = "avoidance"
                  THEN handle_request(i, resource_type, amount, system_state)
                  ELSE _simple_allocation(i, resource_type, amount, system_state)
       IN /\ system_state' = res.ss
          /\ last' = [op |-> IF policy = "avoidance" THEN "handle_request" ELSE "_simple_allocation",
                      i |-> i, resource_type |-> resource_type, amount |-> amount,
                      granted |-> res.granted, reason |-> res.reason, raised |-> res.raised]
    /\ UNCHANGED policy

Retry(attempted_this_step) ==
    /\ LET res == retry_pending_requests(system_state, attempted_this_step, policy)
       IN /\ system_state' = res.ss
          /\ last' = [op |-> "retry_pending_requests", attempted |-> attempted_this_step,
                      results |-> res.results, raised |-> res.raised]
    /\ UNCHANGED policy

Release(i, resource_type, amount) ==
    /\ LET res == release_event(i, resource_type, amount, system_state)
       IN /\ system_state' = res.ss
          /\ last' = [op |-> "release", i |-> i, resource_type |-> resource_type,
                      amount |-> amount, released |-> res.released]
    /\ UNCHANGED policy

Finish(i) ==
    /\ LET res == _finish_process(i, system_state)
       IN /\ system_state' = res.ss
          /\ last' = [op |-> "finish", i |-> i, raised |-> res.raised]
    /\ UNCHANGED policy

IsSafe ==
    /\ LET res == is_safe_state(system_state)
       IN /\ system_state' = res.ss
          /\ last' = [op |-> "is_safe_state", is_safe |-> res.is_safe,
                      safe_sequence |-> res.safe_sequence]
    /\ UNCHANGED policy

Detect ==
    /\ LET res == detect_deadlock(system_state)
       IN /\ system_state' = res.ss
          /\ last' = [op |-> "detect_deadlock", deadlock_exists |-> res.deadlock_exists,
                      deadlocked_pids |-> res.deadlocked_pids]
    /\ UNCHANGED policy

\* simulator.py 108-143: recovery is run on the list detection just returned.
Recover ==
    /\ last.op = "detect_deadlock"
    /\ last.deadlock_exists
    /\ LET res == recover_from_deadlock(last.deadlocked_pids, system_state, "terminate")
       IN /\ system_state' = res.ss
          /\ last' = [op |-> "recover_from_deadlock", deadlocked_pids |-> last.deadlocked_pids,
                      success |-> res.success, victims |-> res.victims,
                      resolved |-> res.resolved, raised |-> res.raised]
    /\ UNCHANGED policy

\* recover_from_deadlock called with a list of the caller's choosing.
RecoverList(deadlocked_pids) ==
    /\ LET res == recover_from_deadlock(deadlocked_pids, system_state, "terminate")
       IN /\ system_state' = res.ss
          /\ last' = [op |-> "recover_from_deadlock", deadlocked_pids |-> deadlocked_pids,
                      success |-> res.success, victims |-> res.victims,
                      resolved |-> res.resolved, raised |-> res.raised]
    /\ UNCHANGED policy

Preempt(pid, resource_type, amount) ==
    /\ LET res == preempt_resources(pid, resource_type, amount, system_state)
       IN /\ system_state' = res.ss
          /\ last' = [op |-> "preempt_resources", pid |-> pid, resource_type |-> resource_type,
                      amount |-> amount, success |-> res.success, raised |-> res.raised,
                      snapshot |-> res.snapshot]
    /\ UNCHANGED policy

Terminate(pid) ==
    /\ LET res == terminate_process(pid, system_state)
       IN /\ system_state' = res.ss
          /\ last' = [op |-> "terminate_process", pid |-> pid,
                      success |-> res.success, raised |-> res.raised]
    /\ UNCHANGED policy

\* --------------------------------------------------------------- scenarios
PidOrders == { f \in [Procs -> Procs] : \A a, b \in Procs : a # b => f[a] # f[b] }

\* Validated ledgers: every resource has MaxInstances instances, every process
\* may claim all of them and initially holds none or one of each type; the
\* processes are listed in arrival order, in either pid order, with distinct
\* priorities up to MaxPriority.
Ledgers ==
    { load_scenario([r \in Res |-> MaxInstances],
                    [p \in Procs |-> [r \in Res |-> MaxInstances]],
                    alloc, pids,
                    [p \in Procs |-> 1 + (p % MaxPriority)],
                    [p \in Procs |-> p]) :
        alloc \in { a \in [Procs -> [Res -> 0 .. 1]] :
                      \A r \in Res : SumOver([p \in Procs |-> a[p][r]], Procs) <= MaxInstances },
        pids \in PidOrders }

Init ==
    /\ system_state \in Ledgers
    /\ policy \in {"avoidance", "detection_with_recovery"}
    /\ last = [op |-> "load_scenario"]

Next ==
    \/ \E i \in Procs : \E r \in Res : \E amount \in Amounts : Request(i, r, amount)
    \/ \E attempted \in SUBSET Pids : Retry(attempted)
    \/ \E i \in Procs : \E r \in Res : \E amount \in Amounts : Release(i, r, amount)
    \/ \E i \in Procs : Finish(i)
    \/ Detect
    \/ Recover
    \/ \E pid \in Pids : Terminate(pid)

Spec == Init /\ [][Next]_vars

\* The same events and calls under the grant-if-available policy with
\* recovery alone.
InitGrantIfAvailable ==
    /\ Init
    /\ policy = "detection_with_recovery"

SpecGrantIfAvailable == InitGrantIfAvailable /\ [][Next]_vars

\* The avoidance policy alone: request events and direct calls of
\* handle_request, retries, releases, finishes, and the safety check.
InitAvoidance ==
    /\ system_state \in Ledgers
    /\ policy = "avoidance"
    /\ last = [op |-> "load_scenario"]

NextAvoidance ==
    \/ \E i \in Procs : \E r \in Res : \E amount \in -1 .. MaxInstances : Request(i, r, amount)
    \/ \E attempted \in SUBSET Pids : Retry(attempted)
    \/ \E i \in Procs : \E r \in Res : \E amount \in Amounts : Release(i, r, amount)
    \/ \E i \in Procs : Finish(i)
    \/ IsSafe

SpecAvoidance == InitAvoidance /\ [][NextAvoidance]_vars

\* What the safety check and the detection pass would return in this state.
SafeNow == is_safe_state(system_state).is_safe

DeadlockNow == detect_deadlock(system_state).deadlock_exists

\* The avoidance policy started from a ledger the Safety Algorithm judges safe.
InitSafe ==
    /\ InitAvoidance
    /\ SafeNow

SpecSafeStart == InitSafe /\ [][NextAvoidance]_vars

\* ------------------------------------------------ ledgers for the algorithms
NumLedgerProcs == 3

LedgerProcs == 0 .. (NumLedgerProcs - 1)

Cells == [LedgerProcs -> [Res -> 0 .. 1]]

\* A ledger some run of events has led to: the loaded ledger with the
\* lifecycle states and pending requests the events have left.
after_events(ss, states, requests) ==
    [ss EXCEPT !.processes =
        [i \in ProcIdx(ss) |->
            [ss.processes[i] EXCEPT !.state = states[i], !.current_request = requests[i]]]]

\* Totals are what is held plus what is available; pids differ from list indices.
drawn_ledger(alloc, max_demand, avail, states, requests) ==
    after_events(
        load_scenario([r \in Res |-> avail[r] + SumOver([p \in LedgerProcs |-> alloc[p][r]], LedgerProcs)],
                      max_demand, alloc,
                      [p \in LedgerProcs |-> NumLedgerProcs - 1 - p],
                      [p \in LedgerProcs |-> 1 + (p % MaxPriority)],
                      [p \in LedgerProcs |-> p]),
        states, requests)

ZeroBased(seq) == [i \in 0 .. (Len(seq) - 1) |-> seq[i + 1]]

ZeroBasedRows(rows) == [i \in 0 .. (Len(rows) - 1) |-> ZeroBased(rows[i + 1])]

\* The classic 5-process / 3-resource state: 7 + 3 = 10, 2 + 3 = 5, 5 + 2 = 7.
ClassicLedger ==
    load_scenario(ZeroBased(<<10, 5, 7>>),
                  ZeroBasedRows(<< <<7, 5, 3>>, <<3, 2, 2>>, <<9, 0, 2>>, <<2, 2, 2>>, <<4, 3, 3>> >>),
                  ZeroBasedRows(<< <<0, 1, 0>>, <<2, 0, 0>>, <<3, 0, 2>>, <<2, 1, 1>>, <<0, 0, 2>> >>),
                  ZeroBased(<<0, 1, 2, 3, 4>>),
                  ZeroBased(<<1, 1, 1, 1, 1>>),
                  ZeroBased(<<0, 0, 0, 0, 0>>))

\* The lifecycle patterns of the ledgers drawn: all active, the first process
\* FINISHED, the second TERMINATED.
LifecyclePatterns ==
    { [p \in LedgerProcs |-> IF p = 0 THEN "READY" ELSE IF p = 1 THEN "WAITING" ELSE "DEADLOCKED"],
      [p \in LedgerProcs |-> IF p = 0 THEN "FINISHED" ELSE IF p = 1 THEN "WAITING" ELSE "READY"],
      [p \in LedgerProcs |-> IF p = 1 THEN "TERMINATED" ELSE "READY"] }

\* Ledgers for the safety check: the Allocation and Need matrices are drawn
\* from cells (every cell 0 or 1) and every Available cell is 0 or 1.
SafetyLedgers(cells) ==
    { drawn_ledger(alloc, [p \in LedgerProcs |-> AddVec(alloc[p], need[p])], avail, states,
                   [p \in LedgerProcs |-> [r \in Res |-> 0]]) :
        alloc \in cells, need \in cells, avail \in [Res -> 0 .. 1],
        states \in LifecyclePatterns }

InitSafety ==
    /\ system_state \in SafetyLedgers(Cells) \cup {ClassicLedger}
    /\ policy = "avoidance"
    /\ last = [op |-> "load_scenario"]

NextSafety == IsSafe

SpecSafety == InitSafety /\ [][NextSafety]_vars

\* Ledgers for the detection pass: the Allocation and Request matrices are
\* drawn from cells (every cell 0 or 1); a process with a pending request is WAITING; max_demand is either what
\* is held and asked for, or more than the system has in total.
DetectionLedgers(cells) ==
    { drawn_ledger(alloc,
                   [p \in LedgerProcs |-> [r \in Res |->
                       IF beyond THEN alloc[p][r] + NumLedgerProcs + 2
                       ELSE alloc[p][r] + request[p][r]]],
                   avail,
                   [p \in LedgerProcs |->
                       IF p = 0 /\ done THEN "FINISHED"
                       ELSE IF \E r \in Res : request[p][r] > 0 THEN "WAITING" ELSE "READY"],
                   request) :
        alloc \in cells, request \in cells, avail \in [Res -> 0 .. 1],
        beyond \in BOOLEAN, done \in BOOLEAN }

InitDetection ==
    /\ system_state \in DetectionLedgers(Cells)
    /\ policy = "detection_only"
    /\ last = [op |-> "load_scenario"]

NextDetection == Detect

SpecDetection == InitDetection /\ [][NextDetection]_vars

\* Ledgers for recovery: every process holds at most one instance and asks
\* for at most one; a process with a pending request is WAITING; max_demand is
\* what is held and asked for; nothing is free, or one instance of the first
\* type.
SingleCells == { c \in Cells : \A p \in LedgerProcs : SumOver(c[p], Res) <= 1 }

RecoveryLedgers(cells) ==
    { drawn_ledger(alloc,
                   [p \in LedgerProcs |-> AddVec(alloc[p], request[p])],
                   avail,
                   [p \in LedgerProcs |->
                       IF p = 0 /\ done THEN "FINISHED"
                       ELSE IF \E r \in Res : request[p][r] > 0 THEN "WAITING" ELSE "READY"],
                   request) :
        alloc \in cells, request \in cells,
        avail \in { v \in [Res -> 0 .. 1] : v[1] = 0 }, done \in BOOLEAN }

\* A pid no ledger has.
UnknownPid == NumProcs + NumLedgerProcs

\* The lists recovery is called with: every ledger pid alone, all of them in
\* list order (pids descend as list indices ascend), and one unknown pid.
RecoveryLists ==
    { <<p>> : p \in LedgerProcs }
    \cup { [k \in 1 .. NumLedgerProcs |-> NumLedgerProcs - k] }
    \cup { <<UnknownPid>> }

InitRecovery ==
    /\ system_state \in RecoveryLedgers(SingleCells)
    /\ policy = "detection_with_recovery"
    /\ last = [op |-> "load_scenario"]

NextRecovery ==
    \/ Detect
    \/ Recover
    \/ \E deadlocked_pids \in RecoveryLists : RecoverList(deadlocked_pids)

SpecRecovery == InitRecovery /\ [][NextRecovery]_vars

\* ------------------------------------------- termination and preemption
\* A victim holding [3,0,2] beside a process holding [5,2,5]: totals
\* [10,5,7], available [2,3,0].
TerminationExample ==
    load_scenario(ZeroBased(<<10, 5, 7>>),
                  ZeroBasedRows(<< <<3, 0, 2>>, <<5, 2, 5>> >>),
                  ZeroBasedRows(<< <<3, 0, 2>>, <<5, 2, 5>> >>),
                  ZeroBased(<<0, 1>>),
                  ZeroBased(<<1, 2>>),
                  ZeroBased(<<0, 0>>))

\* The recovery ledgers where nothing is free, process i holds one instance
\* of type i mod NumResources and every process asks for one instance.
ContendedLedgers(cells) ==
    { ss \in RecoveryLedgers(cells) :
         /\ \A r \in ResIdx(ss) : ss.resources[r].available_instances = 0
         /\ \A i \in ProcIdx(ss) :
               /\ ss.processes[i].allocation[i % NumResources] = 1
               /\ SumOver(ss.processes[i].current_request, ResIdx(ss)) = 1 }

\* terminate_process and preempt_resources called on a ledger, with the pids
\* the ledger has and one it has not and amounts of one or two instances,
\* between detection passes.
InitIntervention ==
    /\ system_state \in ContendedLedgers(SingleCells) \cup {TerminationExample}
    /\ policy = "detection_with_recovery"
    /\ last = [op |-> "load_scenario"]

NextIntervention ==
    \/ Detect
    \/ \E pid \in Pids \cup {UnknownPid} : Terminate(pid)
    \/ \E pid \in Pids \cup {UnknownPid} : \E r \in Res : \E amount \in 1 .. (MaxInstances + 1) :
          Preempt(pid, r, amount)

SpecIntervention == InitIntervention /\ [][NextIntervention]_vars

\* ------------------------------------------- the program with preemption
\* Request, release and finish events, retries and terminations under either
\* policy, and preempt_resources called on the ledger between them.
NextPreempt ==
    \/ \E i \in Procs : \E r \in Res : \E amount \in Amounts : Request(i, r, amount)
    \/ Retry({})
    \/ \E i \in Procs : \E r \in Res : \E amount \in Amounts : Release(i, r, amount)
    \/ \E i \in Procs : Finish(i)
    \/ \E pid \in Pids : Terminate(pid)
    \/ \E pid \in Pids : \E r \in Res : \E amount \in Amounts : Preempt(pid, r, amount)

\* The ledgers whose processes are listed in pid order.
InitPreempt ==
    /\ Init
    /\ \A i \in ProcIdx(system_state) : system_state.processes[i].pid = i

SpecPreempt == InitPreempt /\ [][NextPreempt]_vars

\* ------------------------------------------------ the detection policies
\* A main loop that never leaves on a detected deadlock.
halt_never(pol) == FALSE

\* simulator.py 130-132: under detection_only a detected deadlock ends the
\* loop.
halt(pol) == pol = "detection_only"

\* The loop has been left by the break of line 132.
Halted == last.op = "detect_deadlock" /\ last.deadlock_exists /\ halt(policy)

\* The run has ended in an exception, which run_simulation does not catch.
Crashed == "raised" \in DOMAIN last /\ last.raised

Running == ~Halted /\ ~Crashed

InitHalt ==
    /\ system_state \in Ledgers
    /\ \A i \in ProcIdx(system_state) : system_state.processes[i].pid = i
    /\ policy \in {"detection_only", "detection_with_recovery"}
    /\ last = [op |-> "load_scenario"]

NextHalt ==
    \/ Running /\ \E i \in Procs : \E r \in Res : \E amount \in Amounts : Request(i, r, amount)
    \/ Running /\ \E attempted \in {{}, Pids} : Retry(attempted)
    \/ Running /\ \E i \in Procs : \E r \in Res : \E amount \in Amounts : Release(i, r, amount)
    \/ Running /\ \E i \in Procs : Finish(i)
    \/ Running /\ Detect
    \/ Running /\ policy = "detection_with_recovery" /\ Recover

SpecHalt == InitHalt /\ [][NextHalt]_vars

\* ------------------------------------------------ preemption and rollback
\* A caller that preempts and then rolls the preemption back with the
\* snapshot preempt_resources returned; `during` is the victim's allocation
\* between the two calls.
PreemptThenRestore(pid, resource_type, amount) ==
    /\ LET res == preempt_resources(pid, resource_type, amount, system_state)
       IN /\ res.success
          /\ system_state' = restore(res.ss, res.snapshot)
          /\ last' = [op |-> "restore", after |-> "preempt_resources", pid |-> pid,
                      resource_type |-> resource_type, amount |-> amount,
                      during |-> res.ss.processes[index_of_pid(res.ss, pid)].allocation]
    /\ UNCHANGED policy

NextRoundTrip ==
    \/ \E i \in Procs : \E r \in Res : \E amount \in Amounts : Request(i, r, amount)
    \/ \E i \in Procs : \E r \in Res : \E amount \in Amounts : Release(i, r, amount)
    \/ \E i \in Procs : Finish(i)
    \/ \E pid \in Pids : Terminate(pid)
    \/ \E pid \in Pids : \E r \in Res : \E amount \in Amounts :
          PreemptThenRestore(pid, r, amount)

SpecRoundTrip == InitPreempt /\ [][NextRoundTrip]_vars

\* ------------------------------------------------- snapshots held by a caller
\* A caller takes a snapshot of the loaded ledger, lets up to MaxMutations
\* ledger mutations happen, and then restores the snapshot and refreshes the
\* matrices.  `last` carries the snapshot dictionary and, as `at`, what the
\* ledger read when it was taken.
MaxMutations == 3

LedgerReadings(ss) ==
    [allocation |-> allocation_matrix(ss)._allocation_matrix,
     available  |-> available_vector(ss)._available_vector,
     request    |-> request_matrix(ss)._request_matrix,
     need       |-> need_matrix(ss)._need_matrix,
     processes  |-> [i \in ProcIdx(ss) |->
                       [state |-> ss.processes[i].state,
                        allocation |-> ss.processes[i].allocation,
                        current_request |-> ss.processes[i].current_request]]]

TakeSnapshot ==
    /\ last.op = "load_scenario"
    /\ LET res == snapshot(system_state)
       IN /\ system_state' = res.ss
          /\ last' = [op |-> "snapshot", snapshot |-> res.snapshot,
                      at |-> LedgerReadings(system_state),
                      call |-> "snapshot", mutations |-> 0]
    /\ UNCHANGED policy

SnapshotHeld == last.op \in {"snapshot", "mutation"}

Mutated(call, ss) ==
    /\ SnapshotHeld
    /\ last.mutations < MaxMutations
    /\ system_state' = ss
    /\ last' = [last EXCEPT !.op = "mutation", !.call = call, !.mutations = @ + 1]
    /\ UNCHANGED policy

GrantAfterSnapshot(i, resource_type, amount) ==
    LET res == IF policy = "avoidance"
               THEN handle_request(i, resource_type, amount, system_state)
               ELSE _simple_allocation(i, resource_type, amount, system_state)
    IN res.granted /\ Mutated("grant", res.ss)

ReleaseAfterSnapshot(i, resource_type, amount) ==
    LET res == release_event(i, resource_type, amount, system_state)
    IN res.released /\ Mutated("release", res.ss)

FinishAfterSnapshot(i) ==
    LET res == _finish_process(i, system_state)
    IN ~res.raised /\ Mutated("finish", res.ss)

TerminateAfterSnapshot(pid) ==
    LET res == terminate_process(pid, system_state)
    IN res.success /\ ~res.raised /\ Mutated("terminate", res.ss)

RestoreAndRefresh ==
    /\ SnapshotHeld
    /\ system_state' = refresh_matrices(restore(system_state, last.snapshot))
    /\ last' = [last EXCEPT !.op = "restore"]
    /\ UNCHANGED policy

NextSnapshot ==
    \/ TakeSnapshot
    \/ \E i \in Procs : \E r \in Res : \E amount \in Amounts : GrantAfterSnapshot(i, r, amount)
    \/ \E i \in Procs : \E r \in Res : \E amount \in Amounts : ReleaseAfterSnapshot(i, r, amount)
    \/ \E i \in Procs : FinishAfterSnapshot(i)
    \/ \E pid \in Pids : TerminateAfterSnapshot(pid)
    \/ RestoreAndRefresh

SpecSnapshot == InitPreempt /\ [][NextSnapshot]_vars

\* ------------------------------------------------------------- resource.py
\* One Resource object on its own, driven through its two methods.
MaxTotal == 3
MaxAmount == 2
MaxDrift == 2

\* Resource.__post_init__: the constructor accepts 0 <= available <= total.
Resource(type_id, total_instances, available_instances) ==
    IF available_instances < 0 \/ available_instances > total_instances
    THEN [raised |-> TRUE, resource |-> None]
    ELSE [raised |-> FALSE,
          resource |-> [type_id |-> type_id, total_instances |-> total_instances,
                        available_instances |-> available_instances]]

\* Resource.allocate: False when amount exceeds what is available, otherwise
\* the amount is subtracted.
allocate(resource, amount) ==
    IF amount > resource.available_instances
    THEN [result |-> FALSE, resource |-> resource]
    ELSE [result |-> TRUE,
          resource |-> [resource EXCEPT !.available_instances = @ - amount]]

\* Resource.deallocate: ValueError when the sum would exceed the total,
\* otherwise the amount is added.
deallocate(resource, amount) ==
    IF resource.available_instances + amount > resource.total_instances
    THEN [raised |-> TRUE, resource |-> resource]
    ELSE [raised |-> FALSE,
          resource |-> [resource EXCEPT !.available_instances = @ + amount]]

ResourceAmounts == (0 - MaxAmount)..MaxAmount

\* The counter is followed while it stays within MaxDrift of its range.
InDrift(resource) ==
    /\ resource.available_instances >= 0 - MaxDrift
    /\ resource.available_instances <= resource.total_instances + MaxDrift

Allocate(amount) ==
    /\ LET res == allocate(system_state, amount)
       IN /\ InDrift(res.resource)
          /\ system_state' = res.resource
          /\ last' = [op |-> "allocate", amount |-> amount, result |-> res.result,
                      before |-> system_state.available_instances]
    /\ UNCHANGED policy

Deallocate(amount) ==
    /\ LET res == deallocate(system_state, amount)
       IN /\ InDrift(res.resource)
          /\ system_state' = res.resource
          /\ last' = [op |-> "deallocate", amount |-> amount, raised |-> res.raised,
                      before |-> system_state.available_instances]
    /\ UNCHANGED policy

InitResource ==
    /\ \E total \in 0..MaxTotal : \E available \in 0..MaxTotal :
          /\ ~Resource(0, total, available).raised
          /\ system_state = Resource(0, total, available).resource
    /\ policy = "avoidance"
    /\ last = [op |-> "Resource"]

NextResource ==
    \/ \E amount \in ResourceAmounts : Allocate(amount)
    \/ \E amount \in ResourceAmounts : Deallocate(amount)

SpecResource == InitResource /\ [][NextResource]_vars

\* ------------------------------------------------ loading and validation
\* The scenario as load_scenario holds it before validation (scenario_loader.py
\* 60-70): every resource wholly available, the processes holding what the
\* file says.  The loader bounds a holding by max_demand only, so a negative
\* holding loads.
unvalidated_scenario(total, max_demand, allocation) ==
    [processes |-> [i \in DOMAIN allocation |->
        [pid |-> i, priority |-> 1, arrival_step |-> 0, max_demand |-> max_demand[i],
         allocation |-> allocation[i], state |-> "READY",
         current_request |-> [r \in DOMAIN total |-> 0]]],
     resources |-> [r \in DOMAIN total |->
        [total_instances |-> total[r], available_instances |-> total[r]]],
     _allocation_matrix |-> None, _available_vector |-> None,
     _request_matrix |-> None, _need_matrix |-> None]

\* A validation that also rejects a resource that is exactly used up.
exceeds_or_equals(total_allocated, total_instances) == total_allocated >= total_instances

\* Line 280: the summed initial allocations exceed the resource's total.
exceeds(total_allocated, total_instances) == total_allocated > total_instances

\* Lines 279-294: the resources are visited in order; the first one that is
\* over-allocated raises ScenarioLoadError, the ones before it have been
\* updated.
RECURSIVE validate_resources(_, _)
validate_resources(ss, i) ==
    IF i >= num_resources(ss)
    THEN [raised |-> FALSE, ss |-> ss]
    ELSE LET total_allocated ==
                 SumOver([p \in ProcIdx(ss) |-> ss.processes[p].allocation[i]], ProcIdx(ss))
         IN IF exceeds(total_allocated, ss.resources[i].total_instances)
            THEN [raised |-> TRUE, ss |-> ss]
            ELSE validate_resources(
                     [ss EXCEPT !.resources[i].available_instances =
                                    ss.resources[i].total_instances - total_allocated],
                     i + 1)

Validate ==
    /\ last.op = "_load_resources"
    /\ LET res == validate_resources(system_state, 0)
       IN /\ system_state' = res.ss
          /\ last' = [op |-> "_validate_initial_allocations", raised |-> res.raised]
    /\ UNCHANGED policy

InitLoader ==
    /\ \E total \in [Res -> 0 .. MaxTotal] :
          \E allocation \in [Procs -> [Res -> (0 - 1) .. MaxAmount]] :
             system_state = unvalidated_scenario(total,
                                [p \in Procs |-> [r \in Res |-> MaxAmount]], allocation)
    /\ policy = "avoidance"
    /\ last = [op |-> "_load_resources"]

NextLoader == Validate

SpecLoader == InitLoader /\ [][NextLoader]_vars

\* ------------------------------------------------- the conservation check
\* assert_resource_conservation applied to a loaded ledger whose cached
\* Allocation and Available arrays are absent or hold what in-place writes
\* have left in them (recovery.py 174-178; verify_sanity_checks.py 86-87).
CachedAllocations == {None} \cup [Procs -> [Res -> 0 .. MaxInstances]]

CachedAvailable == {None} \cup [Res -> (0 - 1) .. (MaxInstances + 1)]

AssertConservation ==
    /\ last.op = "load_scenario"
    /\ system_state' = assert_resource_conservation(system_state)
    /\ last' = [op |-> "assert_resource_conservation",
                raised |-> ConservationFails(system_state)]
    /\ UNCHANGED policy

InitConservation ==
    /\ \E ledger \in Ledgers : \E allocation \in CachedAllocations :
          \E available \in CachedAvailable :
             system_state = [ledger EXCEPT !._allocation_matrix = allocation,
                                           !._available_vector = available]
    /\ policy = "avoidance"
    /\ last = [op |-> "load_scenario"]

NextConservation == AssertConservation

SpecConservation == InitConservation /\ [][NextConservation]_vars

\* ------------------------------------------- retries with larger requests
\* The avoidance policy on a ledger with MaxStock instances of the first
\* resource type and MaxInstances of the others, every process declaring the
\* whole stock and holding nothing at load; request, release and finish
\* events with amounts up to MaxStock, retries between them.
MaxStock == 2

StockAmounts == 1 .. MaxStock

Stock == [r \in Res |-> IF r = 0 THEN MaxStock ELSE MaxInstances]

InitRetry ==
    /\ system_state = load_scenario(Stock, [p \in Procs |-> Stock],
                                    [p \in Procs |-> [r \in Res |-> 0]],
                                    [p \in Procs |-> p],
                                    [p \in Procs |-> 1 + (p % MaxPriority)],
                                    [p \in Procs |-> p])
    /\ policy = "avoidance"
    /\ last = [op |-> "load_scenario"]

NextRetry ==
    \/ \E i \in Procs : \E r \in Res : \E amount \in StockAmounts : Request(i, r, amount)
    \/ \E attempted \in SUBSET Pids : Retry(attempted)
    \/ \E i \in Procs : \E r \in Res : \E amount \in StockAmounts : Release(i, r, amount)
    \/ \E i \in Procs : Finish(i)

SpecRetry == InitRetry /\ [][NextRetry]_vars

\* ------------------------------------------------------- victim selection
\* select_victim applied to ledgers of NumLedgerProcs processes whose
\* priorities, arrival steps and holdings are drawn, with every list of
\* distinct pids of the ledger and every strategy name, an unknown one
\* among them.
Strategies == {"priority", "fewest_resources", "youngest", "oldest"}

MaxArrival == 1

VictimLedgers ==
    { load_scenario([r \in Res |-> NumLedgerProcs],
                    [p \in LedgerProcs |-> [r \in Res |-> 1]],
                    [p \in LedgerProcs |-> [r \in Res |-> IF r = 0 THEN held[p] ELSE 0]],
                    [p \in LedgerProcs |-> NumLedgerProcs - 1 - p],
                    prio, arrival) :
        held \in [LedgerProcs -> 0 .. 1],
        prio \in [LedgerProcs -> 1 .. MaxPriority],
        arrival \in [LedgerProcs -> 0 .. MaxArrival] }

VictimLists ==
    { list \in UNION { [1 .. n -> LedgerProcs] : n \in 0 .. NumLedgerProcs } :
        \A a, b \in DOMAIN list : a # b => list[a] # list[b] }

SelectVictim(deadlocked_pids, strategy) ==
    /\ last.op = "load_scenario"
    /\ system_state' =
          IF Len(deadlocked_pids) > 0 /\ strategy = "fewest_resources"
          THEN allocation_matrix(system_state) ELSE system_state
    /\ last' = [op |-> "select_victim", deadlocked_pids |-> deadlocked_pids,
                strategy |-> strategy,
                victim |-> select_victim(deadlocked_pids, system_state, strategy)]
    /\ UNCHANGED policy

InitVictim ==
    /\ system_state \in VictimLedgers
    /\ policy = "detection_with_recovery"
    /\ last = [op |-> "load_scenario"]

NextVictim ==
    \E list \in VictimLists : \E strategy \in Strategies : SelectVictim(list, strategy)

SpecVictim == InitVictim /\ [][NextVictim]_vars

\* ---------------------------------------------------- the simulation step
\* run_simulation's loop body, position by position: the events of the step
\* in pid order (simulator.py 236-312), the retry of pending requests
\* (83-103), detection and recovery with its second retry (105-186), the end
\* of the step (188-198).  `last` holds the position (phase), the set
\* attempted_this_step, the pid of the event handled last, and for every pid
\* the admission attempts made for it in the step.
MaxAttempts == 2

AllPolicies == {"avoidance", "detection_only", "detection_with_recovery"}

NewStep(ss) ==
    [op |-> "step", phase |-> "events", attempted |-> {}, cursor |-> -1,
     attempts |-> [i \in ProcIdx(ss) |-> 0], detected |-> FALSE, recovered |-> FALSE,
     raised |-> FALSE]

InStep(phase) == last.op = "step" /\ last.phase = phase /\ ~last.raised

\* The attempts of a retry call, one for every result tuple.
Counted(attempts, ss, results) ==
    [i \in DOMAIN attempts |->
        attempts[i] + Cardinality({k \in DOMAIN results : results[k].pid = ss.processes[i].pid})]

RequestEvent(i, resource_type, amount) ==
    /\ InStep("events")
    /\ system_state.processes[i].pid >= last.cursor
    /\ last.attempts[i] < MaxAttempts
    /\ LET res == IF policy = "avoidance"
                  THEN handle_request(i, resource_type, amount, system_state)
                  ELSE _simple_allocation(i, resource_type, amount, system_state)
       IN /\ system_state' = res.ss
          /\ last' = [last EXCEPT !.attempted = @ \cup {system_state.processes[i].pid},
                                  !.cursor = system_state.processes[i].pid,
                                  !.attempts[i] = @ + 1,
                                  !.raised = res.raised]
    /\ UNCHANGED policy

ReleaseEvent(i, resource_type, amount) ==
    /\ InStep("events")
    /\ system_state.processes[i].pid >= last.cursor
    /\ LET res == release_event(i, resource_type, amount, system_state)
       IN /\ system_state' = res.ss
          /\ last' = [last EXCEPT !.cursor = system_state.processes[i].pid]
    /\ UNCHANGED policy

FinishEvent(i) ==
    /\ InStep("events")
    /\ system_state.processes[i].pid >= last.cursor
    /\ LET res == _finish_process(i, system_state)
       IN /\ system_state' = res.ss
          /\ last' = [last EXCEPT !.cursor = system_state.processes[i].pid,
                                  !.raised = res.raised]
    /\ UNCHANGED policy

RetryPending ==
    /\ InStep("events")
    /\ LET res == retry_pending_requests(system_state, last.attempted, policy)
       IN /\ system_state' = res.ss
          /\ last' = [last EXCEPT
                         !.phase = IF policy = "avoidance" THEN "end" ELSE "detection",
                         !.attempts = Counted(@, system_state, res.results),
                         !.raised = res.raised]
    /\ UNCHANGED policy

\* should_run_detection is false for the step.
NoDetection ==
    /\ InStep("detection")
    /\ last' = [last EXCEPT !.phase = "end"]
    /\ UNCHANGED <<system_state, policy>>

\* Lines 107-186: detection; on a deadlock the halt of detection_only, or
\* recovery followed by the second retry of the step.
DetectAndRecover ==
    /\ InStep("detection")
    /\ LET det == detect_deadlock(system_state)
       IN IF ~det.deadlock_exists
          THEN /\ system_state' = det.ss
               /\ last' = [last EXCEPT !.phase = "end", !.detected = TRUE]
          ELSE IF halt(policy)
          THEN /\ system_state' = det.ss
               /\ last' = [last EXCEPT !.phase = "halted", !.detected = TRUE]
          ELSE LET rec == recover_from_deadlock(det.deadlocked_pids, det.ss, "terminate")
               IN IF rec.raised \/ ~rec.success
                  THEN /\ system_state' = rec.ss
                       /\ last' = [last EXCEPT !.phase = "halted", !.detected = TRUE,
                                               !.raised = rec.raised]
                  ELSE LET res == retry_pending_requests(rec.ss, last.attempted, policy)
                       IN /\ system_state' = res.ss
                          /\ last' = [last EXCEPT
                                         !.phase = "end", !.detected = TRUE,
                                         !.recovered = TRUE,
                                         !.attempts = Counted(@, rec.ss, res.results),
                                         !.raised = res.raised]
    /\ UNCHANGED policy

\* Lines 195-198: the loop ends when every process is FINISHED or TERMINATED;
\* otherwise the next step begins with an empty attempted_this_step.
EndOfStep ==
    /\ InStep("end")
    /\ \E i \in ProcIdx(system_state) :
          system_state.processes[i].state \notin {"FINISHED", "TERMINATED"}
    /\ last' = NewStep(system_state)
    /\ UNCHANGED <<system_state, policy>>

InitStep ==
    /\ system_state \in Ledgers
    /\ \A i \in ProcIdx(system_state) : system_state.processes[i].pid = i
    /\ policy \in AllPolicies
    /\ last = NewStep(system_state)

NextStep ==
    \/ \E i \in Procs : \E r \in Res : \E amount \in Amounts : RequestEvent(i, r, amount)
    \/ \E i \in Procs : \E r \in Res : \E amount \in Amounts : ReleaseEvent(i, r, amount)
    \/ \E i \in Procs : FinishEvent(i)
    \/ RetryPending
    \/ NoDetection
    \/ DetectAndRecover
    \/ EndOfStep

SpecStep == InitStep /\ [][NextStep]_vars

\* ------------------------------------------- direct calls of _simple_allocation
\* _simple_allocation called as a function, with every amount an int can
\* take around zero, between releases and finishes.
CallAmounts == -1 .. MaxInstances

\* The calls explored leave no allocation below -MaxOverdraw.
MaxOverdraw == 1

SimpleAllocation(i, resource_type, amount) ==
    /\ system_state.processes[i].allocation[resource_type] + amount >= -MaxOverdraw
    /\ LET res == _simple_allocation(i, resource_type, amount, system_state)
       IN /\ system_state' = res.ss
          /\ last' = [op |-> "_simple_allocation", i |-> i, resource_type |-> resource_type,
                      amount |-> amount, granted |-> res.granted, reason |-> res.reason,
                      raised |-> res.raised,
                      need |-> system_state.processes[i].max_demand[resource_type]
                                  - system_state.processes[i].allocation[resource_type],
                      available |-> system_state.resources[resource_type].available_instances]
    /\ UNCHANGED policy

InitSimpleAllocation ==
    /\ system_state \in Ledgers
    /\ \A i \in ProcIdx(system_state) : system_state.processes[i].pid = i
    /\ policy = "detection_only"
    /\ last = [op |-> "load_scenario"]

NextSimpleAllocation ==
    \/ \E i \in Procs : \E r \in Res : \E amount \in CallAmounts : SimpleAllocation(i, r, amount)
    \/ \E i \in Procs : \E r \in Res : \E amount \in Amounts : Release(i, r, amount)
    \/ \E i \in Procs : Finish(i)

SpecSimpleAllocation == InitSimpleAllocation /\ [][NextSimpleAllocation]_vars

\* ------------------------------------------------------------------ claims
ColumnSum(ss, r) == SumOver([i \in ProcIdx(ss) |-> ss.processes[i].allocation[r]], ProcIdx(ss))

Allocations(ss) == [i \in ProcIdx(ss) |-> ss.processes[i].allocation]

Availability(ss) == [r \in ResIdx(ss) |-> ss.resources[r].available_instances]

\* C1: in every reachable state, for every resource the allocations of all
\* processes plus available_instances equal total_instances, and
\* available_instances is not negative.
C1_Conservation ==
    \A r \in ResIdx(system_state) :
        /\ ColumnSum(system_state, r) + system_state.resources[r].available_instances
              = system_state.resources[r].total_instances
        /\ system_state.resources[r].available_instances >= 0

\* C1 witness: a recovery run has terminated a victim that held instances
\* while another process still holds some.
C1_Witness ==
    /\ last.op = "recover_from_deadlock"
    /\ Len(last.victims) >= 1
    /\ \E r \in ResIdx(system_state) : system_state.resources[r].available_instances > 0
    /\ \E i \in ProcIdx(system_state) : \E r \in ResIdx(system_state) :
          system_state.processes[i].allocation[r] > 0

\* C2: under the avoidance policy a granted handle_request leaves a state
\* the Safety Algorithm judges safe, and from a safe initial state every
\* state reached by requests, retries, releases and finishes is safe.
C2_GrantedIsSafe ==
    /\ (last.op = "handle_request" /\ last.granted) => SafeNow
    /\ SafeNow

\* C3: under the avoidance policy, from a safe initial state, no reachable
\* state is one in which detect_deadlock would report a deadlock.
C3_NoDeadlockUnderAvoidance == ~DeadlockNow

\* The requester's pending amounts for the resource types other than rt.
OtherRequests(ss, i, rt) ==
    [r \in ResIdx(ss) \ {rt} |-> ss.processes[i].current_request[r]]

\* C4: when handle_request does not grant, every allocation and every
\* availability keeps its pre-call value, and so do the requester's pending
\* requests for the other resource types.
C4_DenialFrame ==
    [][last'.op = "handle_request" /\ ~last'.granted =>
          /\ Allocations(system_state') = Allocations(system_state)
          /\ Availability(system_state') = Availability(system_state)
          /\ OtherRequests(system_state', last'.i, last'.resource_type)
                = OtherRequests(system_state, last'.i, last'.resource_type)]_vars

\* C4 witness: a request that was tentatively allocated has been denied as
\* unsafe while the requester had another request pending.
C4_Witness ==
    /\ last.op = "handle_request"
    /\ last.reason = "unsafe"
    /\ \E r \in ResIdx(system_state) :
          r # last.resource_type /\ system_state.processes[last.i].current_request[r] > 0

\* C5 as stated: after any denial the whole ledger (every field of every
\* process and resource) is what it was before the call.
C5_DenialChangesNothing ==
    [][last'.op = "handle_request" /\ ~last'.granted =>
          /\ system_state'.processes = system_state.processes
          /\ system_state'.resources = system_state.resources]_vars

\* C5 amended: after a denial every resource, every other process, and the
\* requester's allocation and other pending requests are what they were; for
\* an invalid request the requester is unchanged altogether, otherwise its
\* pending request for the requested type is the amount and it is WAITING.
C5_DenialAmended ==
    [][last'.op = "handle_request" /\ ~last'.granted =>
          LET i  == last'.i
              rt == last'.resource_type
              before == system_state.processes[i]
              after  == system_state'.processes[i]
          IN /\ system_state'.resources = system_state.resources
             /\ \A j \in ProcIdx(system_state) \ {i} :
                   system_state'.processes[j] = system_state.processes[j]
             /\ after.allocation = before.allocation
             /\ after.max_demand = before.max_demand
             /\ OtherRequests(system_state', i, rt) = OtherRequests(system_state, i, rt)
             /\ IF last'.reason \in {"exceeds need", "invalid amount"}
                THEN after = before
                ELSE after.current_request[rt] = last'.amount /\ after.state = "WAITING"]_vars

\* C5 witness: a READY process was denied for insufficient resources and now
\* waits with the request pending.
C5_Witness ==
    /\ last.op = "handle_request"
    /\ last.reason = "insufficient"
    /\ system_state.processes[last.i].state = "WAITING"
    /\ system_state.processes[last.i].current_request[last.resource_type] = last.amount

\* C6: a call with amount <= 0 or amount > Need is denied and changes no
\* field of any process or resource.
C6_InvalidRequest ==
    [][/\ last'.op = "handle_request"
       /\ \/ last'.amount <= 0
          \/ last'.amount > system_state.processes[last'.i].max_demand[last'.resource_type]
                            - system_state.processes[last'.i].allocation[last'.resource_type]
       => /\ ~last'.granted
          /\ system_state' = system_state]_vars

\* C6 witness: a waiting process asked for more than its remaining need of a
\* type it already holds, and was rejected.
C6_Witness ==
    /\ last.op = "handle_request"
    /\ last.reason = "exceeds need"
    /\ last.amount > 0
    /\ system_state.processes[last.i].allocation[last.resource_type] > 0
    /\ system_state.processes[last.i].state = "WAITING"

\* ---------------------------------------------------- the safety algorithm
\* The values the four matrix properties return on a ledger.
MatrixValues(ss) ==
    <<allocation_matrix(ss)._allocation_matrix, available_vector(ss)._available_vector,
      request_matrix(ss)._request_matrix, need_matrix(ss)._need_matrix>>

\* C7: a call of is_safe_state changes no process field, resource field or
\* matrix value (Available included), and a second call on the ledger it
\* leaves returns the same (is_safe, safe_sequence) pair.
C7_SafetyReadOnly ==
    [][last'.op = "is_safe_state" =>
          /\ system_state'.processes = system_state.processes
          /\ system_state'.resources = system_state.resources
          /\ MatrixValues(system_state') = MatrixValues(system_state)
          /\ LET again == is_safe_state(system_state')
             IN /\ again.is_safe = last'.is_safe
                /\ again.safe_sequence = last'.safe_sequence]_vars

\* C7 witness: is_safe_state has found a ledger safe after adding the holdings
\* of at least two active processes to Work.
C7_Witness ==
    /\ last.op = "is_safe_state"
    /\ last.is_safe
    /\ Len(last.safe_sequence) >= 2
    /\ \E i \in ProcIdx(system_state) : \E r \in ResIdx(system_state) :
          /\ system_state.processes[i].state \notin {"FINISHED", "TERMINATED"}
          /\ system_state.processes[i].allocation[r] > 0

\* C8 as stated: on the classic 5-process / 3-resource state is_safe_state
\* returns True with the safe sequence P1, P3, P4, P0, P2.
C8_ClassicSequence ==
    [][system_state = ClassicLedger /\ last'.op = "is_safe_state" =>
          /\ last'.is_safe
          /\ last'.safe_sequence = <<1, 3, 4, 0, 2>>]_vars

\* C8 amended: on the classic state is_safe_state returns True with the safe
\* sequence P1, P3, P0, P2, P4, the one the restart-scan produces.
C8_ClassicRestartSequence ==
    [][system_state = ClassicLedger /\ last'.op = "is_safe_state" =>
          /\ last'.is_safe
          /\ last'.safe_sequence = <<1, 3, 0, 2, 4>>]_vars

\* C8 witness: is_safe_state has run on the classic state.
C8_Witness ==
    /\ last.op = "is_safe_state"
    /\ system_state.processes = ClassicLedger.processes
    /\ system_state.resources = ClassicLedger.resources

ActiveIdx(ss) == {i \in ProcIdx(ss) : ss.processes[i].state \notin {"FINISHED", "TERMINATED"}}

NeedRow(ss, i) ==
    [r \in ResIdx(ss) |-> ss.processes[i].max_demand[r] - ss.processes[i].allocation[r]]

Orderings(S) ==
    { f \in [1 .. Cardinality(S) -> S] : \A a, b \in 1 .. Cardinality(S) : a # b => f[a] # f[b] }

\* Every process of the ordering f needs no more than Available plus the
\* holdings of the processes ordered before it.
Fits(ss, f) ==
    \A k \in DOMAIN f :
        LeqVec(NeedRow(ss, f[k]),
               [r \in ResIdx(ss) |->
                   ss.resources[r].available_instances
                   + SumOver([n \in 1 .. (k - 1) |-> ss.processes[f[n]].allocation[r]], 1 .. (k - 1))])

\* C9: is_safe_state returns True exactly when some ordering of the active
\* processes fits; the sequence returned with True is such an ordering, with
\* every active pid exactly once and no FINISHED or TERMINATED pid; with False
\* the sequence is None.
C9_SafeIffOrdering ==
    [][last'.op = "is_safe_state" =>
          LET ss  == system_state
              seq == last'.safe_sequence
          IN /\ last'.is_safe <=> \E f \in Orderings(ActiveIdx(ss)) : Fits(ss, f)
             /\ last'.is_safe =>
                   /\ Len(seq) = Cardinality(ActiveIdx(ss))
                   /\ {seq[k] : k \in DOMAIN seq} = {ss.processes[i].pid : i \in ActiveIdx(ss)}
                   /\ Fits(ss, [k \in DOMAIN seq |-> index_of_pid(ss, seq[k])])
             /\ ~last'.is_safe => seq = NoSequence]_vars

\* C9 witness: with an inactive process in the ledger, is_safe_state has returned
\* a sequence in which list order had to be abandoned.
C9_Witness ==
    /\ last.op = "is_safe_state"
    /\ last.is_safe
    /\ ActiveIdx(system_state) # ProcIdx(system_state)
    /\ Len(last.safe_sequence) >= 2
    /\ index_of_pid(system_state, last.safe_sequence[1])
          > index_of_pid(system_state, last.safe_sequence[2])

\* ------------------------------------------------------ the detection pass
\* C10: whatever its Need, a process whose current_request is all zeros is
\* not in the deadlocked list detect_deadlock returns on a ledger with
\* non-negative Available.
C10_NoRequestNotDeadlocked ==
    [][/\ last'.op = "detect_deadlock"
       /\ \A r \in ResIdx(system_state) : system_state.resources[r].available_instances >= 0
       => \A i \in ProcIdx(system_state) :
             (\A r \in ResIdx(system_state) : system_state.processes[i].current_request[r] = 0)
             => \A k \in DOMAIN last'.deadlocked_pids :
                   last'.deadlocked_pids[k] # system_state.processes[i].pid]_vars

\* C10 witness: detection has reported a deadlock and left out an active
\* process without pending request whose Need exceeds the total of a resource.
C10_Witness ==
    /\ last.op = "detect_deadlock"
    /\ last.deadlock_exists
    /\ \E i \in ActiveIdx(system_state) :
          /\ \A r \in ResIdx(system_state) : system_state.processes[i].current_request[r] = 0
          /\ \E r \in ResIdx(system_state) :
                NeedRow(system_state, i)[r] > system_state.resources[r].total_instances
          /\ \A k \in DOMAIN last.deadlocked_pids :
                last.deadlocked_pids[k] # system_state.processes[i].pid

\* The processes that can be completed one after another: the least set that
\* holds every active process whose current_request fits into Available plus
\* the allocations of the processes already in the set.
RECURSIVE Completable(_, _)
Completable(ss, W) ==
    LET more == {p \in ActiveIdx(ss) \ W :
                   \A r \in ResIdx(ss) :
                      ss.processes[p].current_request[r]
                         <= ss.resources[r].available_instances
                            + SumOver([q \in W |-> ss.processes[q].allocation[r]], W)}
    IN IF more = {} THEN W ELSE Completable(ss, W \cup more)

Blocked(ss) == ActiveIdx(ss) \ Completable(ss, {})

\* C11: detect_deadlock returns exactly the active processes outside the
\* largest set that can be completed one after another (a set that does not
\* depend on a scan order), each pid once and in ascending list order, and
\* deadlock_exists is true exactly when that list is non-empty.
C11_DeadlockedAreTheRest ==
    [][last'.op = "detect_deadlock"
       => /\ {index_of_pid(system_state, last'.deadlocked_pids[k]) :
                 k \in DOMAIN last'.deadlocked_pids} = Blocked(system_state)
          /\ Len(last'.deadlocked_pids) = Cardinality(Blocked(system_state))
          /\ \A k \in DOMAIN last'.deadlocked_pids : \A m \in DOMAIN last'.deadlocked_pids :
                k < m => index_of_pid(system_state, last'.deadlocked_pids[k])
                            < index_of_pid(system_state, last'.deadlocked_pids[m])
          /\ last'.deadlock_exists = (Blocked(system_state) # {})]_vars

\* C11 witness: detection has reported two deadlocked processes and left out
\* an active process whose pending request was satisfiable in part only by
\* what is free now.
C11_Witness ==
    /\ last.op = "detect_deadlock"
    /\ last.deadlock_exists
    /\ Len(last.deadlocked_pids) = 2
    /\ \E i \in ActiveIdx(system_state) :
          /\ system_state.processes[i].state # "DEADLOCKED"
          /\ \E r \in ResIdx(system_state) : system_state.processes[i].current_request[r] > 0
          /\ \E r \in ResIdx(system_state) : system_state.processes[i].allocation[r] > 0

\* C12: a process that is FINISHED or TERMINATED when detect_deadlock runs is
\* not in the deadlocked list it returns and keeps its state.
C12_TerminalNeverDeadlocked ==
    [][last'.op = "detect_deadlock"
       => \A i \in ProcIdx(system_state) :
             system_state.processes[i].state \in {"FINISHED", "TERMINATED"}
             => /\ system_state'.processes[i].state = system_state.processes[i].state
                /\ \A k \in DOMAIN last'.deadlocked_pids :
                      last'.deadlocked_pids[k] # system_state.processes[i].pid]_vars

\* C12 witness: detection has run on a ledger with a TERMINATED process and a
\* FINISHED process whose recorded request does not fit into what is free.
C12_Witness ==
    /\ last.op = "detect_deadlock"
    /\ \E j \in ProcIdx(system_state) : system_state.processes[j].state = "TERMINATED"
    /\ \E i \in ProcIdx(system_state) :
          /\ system_state.processes[i].state = "FINISHED"
          /\ \E r \in ResIdx(system_state) :
                system_state.processes[i].current_request[r]
                   > system_state.resources[r].available_instances

\* ------------------------------------------------------------------ recovery
\* The ledger pids of a set of list indices.
PidsOf(ss, S) == { ss.processes[i].pid : i \in S }

\* C13 as stated: recover_from_deadlock with method terminate, called with
\* any non-empty list of pids of the ledger, returns success = true after at
\* most len(deadlocked_pids) victim terminations.
C13_AnyListRecovers ==
    [][/\ last'.op = "recover_from_deadlock"
       /\ Len(last'.deadlocked_pids) > 0
       /\ \A k \in DOMAIN last'.deadlocked_pids :
             index_of_pid(system_state, last'.deadlocked_pids[k]) # -1
       => /\ last'.success
          /\ ~last'.raised
          /\ Len(last'.victims) <= Len(last'.deadlocked_pids)]_vars

\* C13 amended: when the list names exactly the processes that are deadlocked
\* in the ledger recovery is called on, each once, recovery returns
\* success = true after at most len(deadlocked_pids) victim terminations.
C13_DeadlockedListRecovers ==
    [][/\ last'.op = "recover_from_deadlock"
       /\ Len(last'.deadlocked_pids) > 0
       /\ Len(last'.deadlocked_pids) = Cardinality(Blocked(system_state))
       /\ {last'.deadlocked_pids[k] : k \in DOMAIN last'.deadlocked_pids}
             = PidsOf(system_state, Blocked(system_state))
       => /\ last'.success
          /\ ~last'.raised
          /\ Len(last'.victims) <= Len(last'.deadlocked_pids)]_vars

\* C13 witness: recovery called with all three processes deadlocked has
\* returned success after terminating more than one victim.
C13_Witness ==
    /\ last.op = "recover_from_deadlock"
    /\ Len(last.deadlocked_pids) = NumLedgerProcs
    /\ last.success
    /\ Len(last.victims) >= 2
    /\ \E i \in ProcIdx(system_state) : system_state.processes[i].state \notin {"FINISHED", "TERMINATED"}

\* C14: when recovery returns success = true, a fresh detect_deadlock on the
\* resulting ledger reports no deadlock, no process is DEADLOCKED, and every
\* process that was DEADLOCKED and was not terminated is WAITING if it has a
\* non-zero current_request entry and READY otherwise.
C14_RecoveredLedger ==
    [][/\ last'.op = "recover_from_deadlock"
       /\ last'.success
       => /\ Blocked(system_state') = {}
          /\ ~detect_deadlock(system_state').deadlock_exists
          /\ \A i \in ProcIdx(system_state') :
                /\ system_state'.processes[i].state # "DEADLOCKED"
                /\ (/\ system_state.processes[i].state = "DEADLOCKED"
                    /\ system_state'.processes[i].state # "TERMINATED")
                   => system_state'.processes[i].state =
                         IF \E r \in ResIdx(system_state') :
                               system_state'.processes[i].current_request[r] # 0
                         THEN "WAITING" ELSE "READY"]_vars

\* C14 witness: recovery has succeeded and a process that was marked
\* DEADLOCKED before it is WAITING for its pending request.
C14_Witness ==
    /\ last.op = "recover_from_deadlock"
    /\ last.success
    /\ \E i \in ProcIdx(system_state) :
          /\ system_state.processes[i].state = "WAITING"
          /\ system_state.processes[i].pid \in
                {last.deadlocked_pids[k] : k \in DOMAIN last.deadlocked_pids}
          /\ \A k \in DOMAIN last.victims : last.victims[k] # system_state.processes[i].pid

\* C15: after terminate_process on an existing process, whatever the state
\* before: the victim's allocation and current_request are all zero and its
\* state is TERMINATED, the allocation and current_request of every other
\* process are unchanged, and every resource's available_instances is its
\* total_instances minus the sum of the remaining allocations.
C15_TerminationLedger ==
    [][/\ last'.op = "terminate_process"
       /\ index_of_pid(system_state, last'.pid) # -1
       => /\ last'.success
          /\ ~last'.raised
          /\ \A i \in ProcIdx(system_state) :
                IF i = index_of_pid(system_state, last'.pid)
                THEN /\ system_state'.processes[i].allocation = ZeroVec(system_state)
                     /\ system_state'.processes[i].current_request = ZeroVec(system_state)
                     /\ system_state'.processes[i].state = "TERMINATED"
                ELSE /\ system_state'.processes[i].allocation = system_state.processes[i].allocation
                     /\ system_state'.processes[i].current_request
                           = system_state.processes[i].current_request
          /\ \A r \in ResIdx(system_state) :
                /\ system_state'.resources[r].total_instances
                      = system_state.resources[r].total_instances
                /\ system_state'.resources[r].available_instances
                      = system_state.resources[r].total_instances - ColumnSum(system_state', r)]_vars

\* C15 witness: the victim that held [3,0,2] of totals [10,5,7] has been
\* terminated first, and available is [5,3,2].
C15_Witness ==
    /\ last.op = "terminate_process"
    /\ last.pid = 0
    /\ last.success
    /\ [r \in ResIdx(system_state) |-> system_state.resources[r].total_instances]
          = ZeroBased(<<10, 5, 7>>)
    /\ Allocations(system_state) = ZeroBasedRows(<< <<0, 0, 0>>, <<5, 2, 5>> >>)
    /\ Availability(system_state) = ZeroBased(<<5, 3, 2>>)

\* C20: terminate_process or preempt_resources with a pid the ledger does not
\* have, and preempt_resources of more instances than the process holds,
\* return failure (success = false, no snapshot) without raising and leave
\* every process, resource and matrix value unchanged.
C20_FailedInterventions ==
    [][\/ /\ last'.op = "terminate_process"
          /\ index_of_pid(system_state, last'.pid) = -1
       \/ /\ last'.op = "preempt_resources"
          /\ \/ index_of_pid(system_state, last'.pid) = -1
             \/ system_state.processes[index_of_pid(system_state, last'.pid)]
                    .allocation[last'.resource_type] < last'.amount
       => /\ ~last'.success
          /\ ~last'.raised
          /\ last'.op = "preempt_resources" => last'.snapshot = None
          /\ system_state'.processes = system_state.processes
          /\ system_state'.resources = system_state.resources
          /\ MatrixValues(system_state') = MatrixValues(system_state)]_vars

\* C20 witness: a preemption of two instances from a process that holds one
\* has failed on a ledger whose allocation matrix had not been built.
C20_Witness ==
    /\ last.op = "preempt_resources"
    /\ ~last.success
    /\ last.amount = 2
    /\ index_of_pid(system_state, last.pid) # -1
    /\ system_state.processes[index_of_pid(system_state, last.pid)]
          .allocation[last.resource_type] = 1
    /\ system_state._available_vector = None
    /\ system_state._allocation_matrix # None

\* ------------------------------------------------------------------- retries
Terminal == {"FINISHED", "TERMINATED"}

\* The processes a retry call has to attempt: not attempted in this step, not
\* FINISHED or TERMINATED, with a non-zero pending request.
Eligible(ss, attempted) ==
    { i \in ProcIdx(ss) :
         /\ ss.processes[i].pid \notin attempted
         /\ ss.processes[i].state \notin Terminal
         /\ \E r \in ResIdx(ss) : ss.processes[i].current_request[r] > 0 }

FirstNonzero(row) == CHOOSE r \in DOMAIN row : row[r] # 0 /\ \A q \in DOMAIN row : q < r => row[q] = 0

\* C16: one call of retry_pending_requests returns one result per process
\* that is not in already_attempted, is not FINISHED or TERMINATED and has a
\* non-zero pending request, for its first non-zero resource type and with the
\* pending amount, none for any other process, in ascending pid order.
C16_OneAttemptEach ==
    [][last'.op = "retry_pending_requests"
       => LET E == Eligible(system_state, last'.attempted)
              results == last'.results
          IN /\ ~last'.raised
             /\ Len(results) = Cardinality(E)
             /\ {results[k].pid : k \in DOMAIN results} = PidsOf(system_state, E)
             /\ \A k \in DOMAIN results : \A m \in DOMAIN results :
                   k < m => results[k].pid < results[m].pid
             /\ \A k \in DOMAIN results :
                   LET i == index_of_pid(system_state, results[k].pid)
                   IN i \in E =>
                         /\ results[k].resource_type
                               = FirstNonzero(system_state.processes[i].current_request)
                         /\ results[k].amount
                               = system_state.processes[i].current_request[results[k].resource_type]]_vars

\* C17: a request denied for insufficient resources and recorded as pending
\* is attempted by the next call of retry_pending_requests in which its
\* process is not in already_attempted and not FINISHED or TERMINATED: the
\* results hold an entry for the pid and the resource type. (The request is
\* the first pending one of its process.)
C17_DeniedIsRetried ==
    [][/\ last.op = "handle_request"
       /\ ~last.granted
       /\ last.reason = "insufficient"
       /\ last'.op = "retry_pending_requests"
       /\ system_state.processes[last.i].pid \notin last'.attempted
       /\ system_state.processes[last.i].state \notin Terminal
       /\ system_state.processes[last.i].current_request[last.resource_type] > 0
       /\ \A q \in ResIdx(system_state) :
             q < last.resource_type => system_state.processes[last.i].current_request[q] = 0
       => \E k \in DOMAIN last'.results :
             /\ last'.results[k].pid = system_state.processes[last.i].pid
             /\ last'.results[k].resource_type = last.resource_type]_vars

\* ------------------------------------------------------------ cached matrices
AllocationFresh(ss) == ss._allocation_matrix \in {None, _build_allocation_matrix(ss)}

AvailableFresh(ss) == ss._available_vector \in {None, _build_available_vector(ss)}

RequestFresh(ss) == ss._request_matrix \in {None, _build_request_matrix(ss)}

NeedFresh(ss) ==
    ss._need_matrix \in {None, [i \in ProcIdx(ss) |-> NeedRow(ss, i)]}

\* C18: where the retry scheduler reads the Request matrix (it has a process
\* that is neither attempted nor FINISHED / TERMINATED to look at) and where
\* the safety algorithm reads Allocation, Need and Available, the cached
\* matrix is either not built or equal to the value derived from the process
\* and resource fields.
C18_ReadersSeeFreshMatrices ==
    [][/\ (/\ last'.op = "retry_pending_requests"
           /\ \E i \in ProcIdx(system_state) :
                 /\ system_state.processes[i].pid \notin last'.attempted
                 /\ system_state.processes[i].state \notin Terminal)
          => RequestFresh(system_state)
       /\ last'.op = "is_safe_state"
          => /\ AllocationFresh(system_state)
             /\ AvailableFresh(system_state)
             /\ NeedFresh(system_state)]_vars

\* --------------------------------------------------------------- lifecycle
\* C19: a process that is FINISHED or TERMINATED is FINISHED or TERMINATED
\* after every request event, retry, release, finish, detection pass and
\* recovery run, under every policy.
C19_TerminalStaysTerminal ==
    [][\A i \in ProcIdx(system_state) :
          system_state.processes[i].state \in Terminal
          => system_state'.processes[i].state \in Terminal]_vars

\* ----------------------------------------------------------- error handling
ConservationHolds(ss) ==
    \A r \in ResIdx(ss) :
        /\ ColumnSum(ss, r) + ss.resources[r].available_instances = ss.resources[r].total_instances
        /\ ss.resources[r].available_instances >= 0

\* C21: a request event, a retry call, a finish, a termination, a preemption
\* and a recovery run end by returning a value; one of them ends in an
\* exception only when the conservation invariant is violated.
C21_OutcomesAreReturned ==
    [][/\ "raised" \in DOMAIN last'
       /\ last'.raised
       => ~ConservationHolds(system_state')]_vars

\* ------------------------------------------------------------ ledger bounds
\* C22: in every reachable state every process holds, of every resource type,
\* at least nothing and at most its max_demand.
C22_AllocationWithinMaxDemand ==
    \A i \in ProcIdx(system_state) : \A r \in ResIdx(system_state) :
        /\ 0 <= system_state.processes[i].allocation[r]
        /\ system_state.processes[i].allocation[r] <= system_state.processes[i].max_demand[r]

\* C22 witness: a process holds its max_demand of a type after a grant, while
\* another process has had an instance preempted.
C22_Witness ==
    /\ last.op \in {"handle_request", "_simple_allocation"}
    /\ last.granted
    /\ system_state.processes[last.i].allocation[last.resource_type]
          = system_state.processes[last.i].max_demand[last.resource_type]
    /\ \E r \in ResIdx(system_state) :
          ColumnSum(system_state, r) + system_state.resources[r].available_instances
             < system_state.resources[r].total_instances

\* ---------------------------------------------------------- resource bounds
\* C23: after every allocate and deallocate call on a validly constructed
\* Resource, with any integer amount, available_instances lies between 0 and
\* total_instances, and a refused call (allocate returning False, deallocate
\* raising ValueError) leaves available_instances as it was.
C23_AvailableWithinTotal ==
    [][/\ 0 <= system_state'.available_instances
       /\ system_state'.available_instances <= system_state'.total_instances
       /\ (last'.op = "allocate" /\ ~last'.result
              => system_state'.available_instances = system_state.available_instances)
       /\ (last'.op = "deallocate" /\ last'.raised
              => system_state'.available_instances = system_state.available_instances)]_vars

\* ------------------------------------------------------ snapshot and restore
\* C24: a successful preempt_resources followed by restore with the snapshot
\* it returned leaves the Allocation, Available, Request and Need matrices
\* and every process's state, allocation and current_request as they were
\* immediately before the preemption.
C24_PreemptRestoreRoundTrip ==
    [][last'.op = "restore" /\ last'.after = "preempt_resources"
       => LedgerReadings(system_state') = LedgerReadings(system_state)]_vars

\* C24 witness: a preemption that took an instance from a RUNNING or READY
\* process has been rolled back.
C24_Witness ==
    /\ last.op = "restore"
    /\ last.after = "preempt_resources"
    /\ LET i == index_of_pid(system_state, last.pid)
       IN /\ last.during[last.resource_type]
                = system_state.processes[i].allocation[last.resource_type] - last.amount
          /\ system_state.processes[i].state \in {"RUNNING", "READY"}

\* C25: a snapshot taken before any sequence of granted requests, releases,
\* finishes and terminations is not changed by them, and restore(s) followed
\* by a refresh of the matrices gives Allocation, Available, Request and Need
\* matrices and per-process state, allocation and current_request equal to
\* what they were when the snapshot was taken.
C25_RestoreAfterMutations ==
    [][/\ (SnapshotHeld /\ last'.op \in {"mutation", "restore"}
              => last'.snapshot = last.snapshot /\ last'.at = last.at)
       /\ (SnapshotHeld /\ last'.op = "restore"
              => LedgerReadings(system_state') = last.at)]_vars

\* --------------------------------------------------------- detection_only
\* C26: under detection_only, once a detection pass has reported a deadlock
\* nothing more is applied: no event, retry, recovery or termination, and
\* the ledger stays as it was when the deadlock was detected.
C26_DetectionOnlyHalts ==
    [][/\ policy = "detection_only"
       /\ last.op = "detect_deadlock"
       /\ last.deadlock_exists
       => /\ system_state' = system_state
          /\ last' = last]_vars

\* C26 witness: detection_only has reported two deadlocked processes, both
\* marked DEADLOCKED and still holding instances.
C26_Witness ==
    /\ policy = "detection_only"
    /\ last.op = "detect_deadlock"
    /\ last.deadlock_exists
    /\ Len(last.deadlocked_pids) >= 2
    /\ \A k \in DOMAIN last.deadlocked_pids :
          LET i == index_of_pid(system_state, last.deadlocked_pids[k])
          IN /\ system_state.processes[i].state = "DEADLOCKED"
             /\ \E r \in ResIdx(system_state) : system_state.processes[i].allocation[r] > 0

\* ------------------------------------------------------ initial validation
\* C27: _validate_initial_allocations rejects the scenario exactly when some
\* resource's summed initial allocations exceed its total_instances;
\* otherwise every available_instances becomes total_instances minus that
\* sum, and the initial ledger conserves every resource.
C27_InitialValidation ==
    [][last'.op = "_validate_initial_allocations"
       => /\ last'.raised <=>
                \E r \in ResIdx(system_state) :
                    ColumnSum(system_state, r) > system_state.resources[r].total_instances
          /\ ~last'.raised =>
                /\ \A r \in ResIdx(system_state) :
                      system_state'.resources[r].available_instances
                         = system_state.resources[r].total_instances - ColumnSum(system_state, r)
                /\ ConservationHolds(system_state')
                /\ system_state'.processes = system_state.processes]_vars

\* C27 witness: a scenario whose allocations use one resource up and leave
\* instances of another has been accepted.
C27_Witness ==
    /\ last.op = "_validate_initial_allocations"
    /\ ~last.raised
    /\ \E r \in ResIdx(system_state) :
          /\ ColumnSum(system_state, r) > 0
          /\ system_state.resources[r].available_instances = 0
    /\ \E r \in ResIdx(system_state) :
          /\ ColumnSum(system_state, r) > 0
          /\ system_state.resources[r].available_instances > 0

\* ------------------------------------------------------ conservation check
\* C28: assert_resource_conservation raises exactly when, for some resource,
\* the Allocation column sum plus Available differs from total_instances or
\* Available is negative; it changes no process, no resource and no matrix
\* value.
C28_ConservationCheck ==
    [][last'.op = "assert_resource_conservation"
       => /\ last'.raised <=>
                \E r \in ResIdx(system_state) :
                    LET allocated == SumOver([i \in ProcIdx(system_state) |->
                                                LedgerReadings(system_state).allocation[i][r]],
                                             ProcIdx(system_state))
                        available == LedgerReadings(system_state).available[r]
                    IN \/ allocated + available # system_state.resources[r].total_instances
                       \/ available < 0
          /\ system_state'.processes = system_state.processes
          /\ system_state'.resources = system_state.resources
          /\ LedgerReadings(system_state') = LedgerReadings(system_state)]_vars

\* C28 witness: the check has raised on a ledger whose sums agree with the
\* totals while something available is negative.
C28_Witness ==
    /\ last.op = "assert_resource_conservation"
    /\ last.raised
    /\ \A r \in ResIdx(system_state) :
          SumOver([i \in ProcIdx(system_state) |-> system_state._allocation_matrix[i][r]],
                  ProcIdx(system_state))
             + system_state._available_vector[r] = system_state.resources[r].total_instances
    /\ \E r \in ResIdx(system_state) : system_state._available_vector[r] < 0

\* --------------------------------------------------------- denied requests
\* C29: when handle_request denies a request that passed validation, for
\* want of instances or because the tentative state is unsafe, the process
\* afterwards has current_request[resource_type] = amount and is WAITING.
C29_DeniedIsPendingAndWaiting ==
    [][/\ last'.op = "handle_request"
       /\ ~last'.granted
       /\ last'.amount > 0
       /\ last'.amount <= system_state.processes[last'.i].max_demand[last'.resource_type]
                            - system_state.processes[last'.i].allocation[last'.resource_type]
       => /\ system_state'.processes[last'.i].current_request[last'.resource_type] = last'.amount
          /\ system_state'.processes[last'.i].state = "WAITING"]_vars

\* C29 witness: a process has been denied because granting would leave an
\* unsafe state, although the instances it asked for were free, and is
\* WAITING.
C29_Witness ==
    /\ last.op = "handle_request"
    /\ ~last.granted
    /\ last.reason = "unsafe"
    /\ system_state.processes[last.i].state = "WAITING"
    /\ system_state.resources[last.resource_type].available_instances >= last.amount

\* ------------------------------------------------------------ retry results
\* What the granted results of one retry call took of a resource type.
GrantedOf(results, resource_type) ==
    SumOver([k \in DOMAIN results |->
                IF results[k].granted /\ results[k].resource_type = resource_type
                THEN results[k].amount ELSE 0],
            DOMAIN results)

\* C30: for every result tuple of retry_pending_requests: if granted, the
\* process's allocation of the resource type has grown by the amount, the
\* resource's availability has shrunk by what the call granted of it, the
\* process's current_request of the type is 0 and a WAITING process has
\* become READY; if denied, the process's current_request is what it was
\* before the call.
C30_RetryResults ==
    [][last'.op = "retry_pending_requests"
       => \A k \in DOMAIN last'.results :
             LET t  == last'.results[k]
                 i  == index_of_pid(system_state, t.pid)
                 rt == t.resource_type
             IN IF t.granted
                THEN /\ system_state'.processes[i].allocation[rt]
                           = system_state.processes[i].allocation[rt] + t.amount
                     /\ system_state'.resources[rt].available_instances
                           = system_state.resources[rt].available_instances
                                - GrantedOf(last'.results, rt)
                     /\ system_state'.processes[i].current_request[rt] = 0
                     /\ system_state.processes[i].state = "WAITING"
                           => system_state'.processes[i].state = "READY"
                ELSE system_state'.processes[i].current_request
                        = system_state.processes[i].current_request]_vars

\* ---------------------------------------------------------- victim selection
\* What a strategy ranks a process by, and whether it looks for the most or
\* the least.
VictimKey(ss, pid, strategy) ==
    LET process == ss.processes[index_of_pid(ss, pid)]
    IN IF strategy = "fewest_resources" THEN SumOver(process.allocation, ResIdx(ss))
       ELSE IF strategy = "youngest" THEN process.arrival_step
       ELSE process.priority

Outranks(ss, a, b, strategy) ==
    IF strategy = "fewest_resources"
    THEN VictimKey(ss, a, strategy) < VictimKey(ss, b, strategy)
    ELSE VictimKey(ss, a, strategy) > VictimKey(ss, b, strategy)

\* C31: select_victim returns -1 on an empty list; on a nonempty list it
\* returns a member that no member outranks (maximal priority value under
\* 'priority' and under an unknown strategy, minimal total of held instances
\* under 'fewest_resources', maximal arrival_step under 'youngest'), and
\* every member listed before it is outranked by it.
C31_VictimChoice ==
    [][last'.op = "select_victim"
       => LET list == last'.deadlocked_pids
              victim == last'.victim
              strategy == last'.strategy
          IN IF Len(list) = 0 THEN victim = -1
             ELSE \E n \in DOMAIN list :
                     /\ list[n] = victim
                     /\ \A m \in DOMAIN list :
                           ~Outranks(system_state, list[m], victim, strategy)
                     /\ \A m \in 1 .. (n - 1) :
                           Outranks(system_state, victim, list[m], strategy)]_vars

\* C31 witness: under 'fewest_resources' the victim was chosen from three
\* processes of which two tie for the fewest holdings, and it is not the
\* first of the list.
C31_Witness ==
    /\ last.op = "select_victim"
    /\ last.strategy = "fewest_resources"
    /\ Len(last.deadlocked_pids) = NumLedgerProcs
    /\ last.victim # last.deadlocked_pids[1]
    /\ \E n \in DOMAIN last.deadlocked_pids :
          /\ last.deadlocked_pids[n] # last.victim
          /\ VictimKey(system_state, last.deadlocked_pids[n], "fewest_resources")
                = VictimKey(system_state, last.victim, "fewest_resources")

\* ------------------------------------------------------ recovery by victims
\* The ledger with the processes of K terminated: nothing held, nothing
\* pending, and what they held free again.
Killed(ss, K) ==
    LET processes == [i \in ProcIdx(ss) |->
                        IF i \in K
                        THEN [ss.processes[i] EXCEPT !.state = "TERMINATED",
                                                     !.allocation = ZeroVec(ss),
                                                     !.current_request = ZeroVec(ss)]
                        ELSE ss.processes[i]]
    IN [ss EXCEPT !.processes = processes,
                  !.resources = [r \in ResIdx(ss) |->
                      [ss.resources[r] EXCEPT !.available_instances =
                          ss.resources[r].total_instances
                             - SumOver([i \in ProcIdx(ss) |-> processes[i].allocation[r]],
                                       ProcIdx(ss))]]]

\* C32: in recover_from_deadlock with method terminate, called on the list
\* detection has just reported, every victim is a member with the highest
\* priority value of the set that is deadlocked once the victims before it
\* are terminated, that set is not empty, every victim is one of the
\* processes originally reported, and after the last victim of a successful
\* recovery nothing is deadlocked.
C32_VictimsFollowDetection ==
    [][/\ last.op = "detect_deadlock"
       /\ last.deadlock_exists
       /\ last'.op = "recover_from_deadlock"
       /\ last'.deadlocked_pids = last.deadlocked_pids
       => LET victims == last'.victims
              idx(k) == index_of_pid(system_state, victims[k])
          IN /\ \A k \in DOMAIN victims :
                   LET remaining == Blocked(Killed(system_state, {idx(m) : m \in 1 .. (k - 1)}))
                   IN /\ idx(k) \in remaining
                      /\ \A j \in remaining :
                            system_state.processes[j].priority
                               <= system_state.processes[idx(k)].priority
                      /\ \E n \in DOMAIN last.deadlocked_pids :
                            last.deadlocked_pids[n] = victims[k]
             /\ last'.success
                   => Blocked(Killed(system_state, {idx(m) : m \in DOMAIN victims})) = {}
             /\ \A i \in ProcIdx(system_state) :
                   /\ system_state'.processes[i].state = "TERMINATED"
                   /\ system_state.processes[i].state # "TERMINATED"
                   => \E k \in DOMAIN victims : idx(k) = i]_vars

\* C32 witness: of three processes reported deadlocked the one with the
\* highest priority value was terminated first, a second one after the
\* detection that followed, and the third was left alive.
C32_Witness ==
    /\ last.op = "recover_from_deadlock"
    /\ last.success
    /\ Len(last.deadlocked_pids) = NumLedgerProcs
    /\ Len(last.victims) = 2
    /\ system_state.processes[index_of_pid(system_state, last.victims[1])].priority
          > system_state.processes[index_of_pid(system_state, last.victims[2])].priority
    /\ \E n \in DOMAIN last.deadlocked_pids :
          system_state.processes[index_of_pid(system_state, last.deadlocked_pids[n])].state
             \in {"WAITING", "READY"}

\* -------------------------------------------------------- preempted ledger
\* Conservation as a caller reads it: Allocation column sums plus Available
\* equal the totals, and nothing available is negative.
ReadingsConserve(ss) ==
    \A r \in ResIdx(ss) :
        /\ SumOver([i \in ProcIdx(ss) |-> LedgerReadings(ss).allocation[i][r]], ProcIdx(ss))
              + LedgerReadings(ss).available[r] = ss.resources[r].total_instances
        /\ LedgerReadings(ss).available[r] >= 0

\* C33: after a successful preempt_resources(pid, r, amount) the victim's
\* allocation[r] is lower by amount, Need[pid][r] is higher by amount, a
\* RUNNING or READY victim is WAITING, Available[r] is higher by amount and
\* equals the resource's available_instances, and conservation holds both
\* at once and after the matrices are rebuilt.
C33_PreemptedLedger ==
    [][/\ last'.op = "preempt_resources"
       /\ last'.success
       => LET i == index_of_pid(system_state, last'.pid)
              r == last'.resource_type
          IN /\ system_state'.processes[i].allocation[r]
                   = system_state.processes[i].allocation[r] - last'.amount
             /\ LedgerReadings(system_state').need[i][r]
                   = LedgerReadings(system_state).need[i][r] + last'.amount
             /\ system_state.processes[i].state \in {"RUNNING", "READY"}
                   => system_state'.processes[i].state = "WAITING"
             /\ LedgerReadings(system_state').available[r]
                   = LedgerReadings(system_state).available[r] + last'.amount
             /\ LedgerReadings(system_state').available[r]
                   = system_state'.resources[r].available_instances
             /\ ReadingsConserve(system_state')
             /\ ReadingsConserve(refresh_matrices(system_state'))]_vars

\* ------------------------------------------------------ attempts per step
\* C34: within one simulation step no process makes more than one admission
\* attempt, its scheduled request event or one retry of its pending request,
\* under every policy.
C34_OneAttemptPerStep ==
    last.op = "step" => \A i \in DOMAIN last.attempts : last.attempts[i] <= 1


\* ------------------------------------------------------ grant if available
\* The fields of the processes and of the resources.
Fields(ss) == [processes |-> ss.processes, resources |-> ss.resources]

\* C35: _simple_allocation denies a request with amount <= 0 or with
\* amount > need and then changes no field of any process or resource; it
\* grants exactly when 0 < amount <= need and amount <= available_instances.
C35_SimpleAllocation ==
    [][last'.op = "_simple_allocation" =>
          /\ (last'.amount <= 0 \/ last'.amount > last'.need) =>
                ~last'.granted /\ Fields(system_state') = Fields(system_state)
          /\ last'.granted <=>
                (0 < last'.amount /\ last'.amount <= last'.need
                    /\ last'.amount <= last'.available)]_vars


\* ------------------------------------------------ the ledger after recovery
\* C36: under detection_with_recovery, at the end of every simulation step in
\* which detection ran, after recovery and the post-recovery retry of the
\* pending requests, detect_deadlock would report no deadlock.
C36_NoDeadlockAtEndOfStep ==
    (/\ last.op = "step"
     /\ policy = "detection_with_recovery"
     /\ last.phase = "end"
     /\ last.detected
     /\ ~last.raised)
        => ~detect_deadlock(system_state).deadlock_exists

\* A step in which a deadlock was found, recovery succeeded and the second
\* retry ran.
C36_Witness ==
    /\ last.op = "step"
    /\ policy = "detection_with_recovery"
    /\ last.phase = "end"
    /\ last.recovered
    /\ ~last.raised
    /\ \E i \in ProcIdx(system_state) : system_state.processes[i].state = "TERMINATED"


\* ------------------------------------------------------ ledger invariants
\* C37: for every process and resource type the pending request never
\* exceeds the remaining need, current_request <= max_demand - allocation.
C37_PendingWithinNeed ==
    \A i \in ProcIdx(system_state) : \A r \in ResIdx(system_state) :
        system_state.processes[i].current_request[r]
            <= system_state.processes[i].max_demand[r] - system_state.processes[i].allocation[r]


\* A request granted to a process that keeps, on another resource type, a
\* pending request as large as its remaining need there.
C37_Witness ==
    /\ last.op \in {"handle_request", "_simple_allocation"}
    /\ last.granted
    /\ \E r \in ResIdx(system_state) :
          /\ r # last.resource_type
          /\ system_state.processes[last.i].current_request[r] > 0
          /\ system_state.processes[last.i].current_request[r]
                = system_state.processes[last.i].max_demand[r]
                    - system_state.processes[last.i].allocation[r]

\* C38: a process in state FINISHED or TERMINATED holds no resources.
C38_FinishedHoldNothing ==
    \A i \in ProcIdx(system_state) :
        system_state.processes[i].state \in {"FINISHED", "TERMINATED"}
            => \A r \in ResIdx(system_state) : system_state.processes[i].allocation[r] = 0

\* C39: a process with a nonzero current_request entry is in state WAITING
\* or DEADLOCKED.
C39_PendingIsWaiting ==
    \A i \in ProcIdx(system_state) :
        (\E r \in ResIdx(system_state) : system_state.processes[i].current_request[r] # 0)
            => system_state.processes[i].state \in {"WAITING", "DEADLOCKED"}


\* ------------------------------------------------- what detection changes
\* The pids of a list.
Reported(deadlocked_pids) == {deadlocked_pids[n] : n \in DOMAIN deadlocked_pids}

\* C40: detect_deadlock changes nothing in the ledger except the state of the
\* processes it reports, which becomes DEADLOCKED: allocation, availability,
\* current_request and the states of the unreported processes are unchanged,
\* and an immediately repeated call returns the same (deadlock_exists,
\* deadlocked_pids).
C40_DetectionOnlyMarks ==
    [][last'.op = "detect_deadlock" =>
          /\ system_state'.resources = system_state.resources
          /\ \A i \in ProcIdx(system_state) :
                system_state'.processes[i] =
                    [system_state.processes[i] EXCEPT !.state =
                        IF system_state.processes[i].pid \in Reported(last'.deadlocked_pids)
                        THEN "DEADLOCKED" ELSE @]
          /\ LET again == detect_deadlock(system_state')
             IN /\ again.deadlock_exists = last'.deadlock_exists
                /\ again.deadlocked_pids = last'.deadlocked_pids]_vars

\* A pass that reports two processes holding instances and leaves a third,
\* unreported one as it was.
C40_Witness ==
    /\ last.op = "detect_deadlock"
    /\ last.deadlock_exists
    /\ Len(last.deadlocked_pids) >= 2
    /\ \E i \in ProcIdx(system_state) :
          /\ system_state.processes[i].pid \notin Reported(last.deadlocked_pids)
          /\ system_state.processes[i].state \in {"READY", "WAITING"}
    /\ \A i \in ProcIdx(system_state) :
          system_state.processes[i].state = "DEADLOCKED"
             => \E r \in ResIdx(system_state) : system_state.processes[i].allocation[r] > 0
====
